---- MODULE Spec2Model ----
(***************************************************************************)
(* Blackjack plugin: the game engine (BlackjackGame), the seats (Player),  *)
(* the shoe (Deck) and the per-chat session manager (ChatGameManager),     *)
(* modelled as one state machine.  Timers of the host (setTimeout /        *)
(* clearTimeout) are a set of pending callbacks; a pending callback fires  *)
(* as one atomic step, as on a single-threaded event loop.                 *)
(***************************************************************************)
EXTENDS Integers, Sequences, FiniteSets, TLC

VARIABLES
    game,                 \* ChatGameManager.game: "null" or "game"
    myDealerBalance,      \* ChatStatistics.myDealerBalance
    score,                \* User.score of every user of the chat (the ledger)
    gameState,            \* BlackjackGame.gameState
    myPlayers,            \* BlackjackGame.myPlayers (seats in join order)
    dealer,               \* BlackjackGame.dealer
    playerTurnIndex,      \* BlackjackGame.playerTurnIndex (0-based, -1 at start)
    playerTurnTimeoutId,  \* BlackjackGame.playerTurnTimeoutId (0: never assigned)
    deck,                 \* BlackjackGame.deck: cards left in the shoe, per rank
    timers,               \* pending setTimeout callbacks of the engine
    events,               \* listener calls made by the engine in this round
    gamesCreated,         \* number of BlackjackGame objects constructed so far
    last                  \* the operation performed by the last step and its result

mgrVars == <<game, myDealerBalance, score>>
engineVars == <<gameState, myPlayers, dealer, playerTurnIndex, playerTurnTimeoutId,
                deck, timers>>
vars == <<game, myDealerBalance, score, gameState, myPlayers, dealer, playerTurnIndex,
          playerTurnTimeoutId, deck, timers, events, gamesCreated, last>>

----------------------------------------------------------------------------
\* Bounds of the model.

\* Users of the chat are 1..NumUsers.
NumUsers == 2
\* The environment sends no join that would create more than MaxSeats seats.
MaxSeats == 2
\* The environment starts at most MaxGames rounds on a session.
MaxGames == 2
\* Shuffles explored: those whose drawn cards have one of the first NumRanks
\* ranks of RankOrder, at most MaxAces of them aces.
NumRanks == 2
MaxAces == 2
\* Bets sent by users are 0..MaxBet.
MaxBet == 2
\* Every user's ledger balance before the first round.
StartScore == 2
\* Player.rewardPlayer is applied to bets of 1..MaxRewardBet and to the
\* multipliers 0, 0.5, 1, ... MaxMultiplierX2 / 2.
MaxRewardBet == 15
MaxMultiplierX2 == 6
\* Player.giveCards is applied to hands of up to MaxHandCards cards.
MaxHandCards == 3
\* The join window on its own: users 1..NumJoinUsers, and the environment
\* sends no join that would create more than MaxJoinSeats seats.
NumJoinUsers == 4
MaxJoinSeats == 4

\* Calls with the dealer's identifier are made while the turn index is less
\* than MaxDealerCalls past the dealer's.
MaxDealerCalls == 1
\* The cards dealt before those calls are of the first NumDealtRanks ranks.
NumDealtRanks == 4

UserIds == 1..NumUsers
BetInputs == 0..MaxBet

----------------------------------------------------------------------------
\* Program constants.

MAX_HAND_VALUE == 21
DEALER_MIN_GOAL == 17
DEALER_IDENTIFIER == -1
FACE_CARD_VALUE == 10

\* Bet multipliers, doubled so that 2.5 and 0.5 are whole numbers.
BET_MULTIPLIER_ON_EVEN_X2 == 2
BET_MULTIPLIER_ON_WIN_X2 == 4
BET_MULTIPLIER_ON_BLACKJACK_X2 == 5
BET_MULTIPLIER_ON_SURRENDER_X2 == 1

Ranks == {"Ace", "King", "Queen", "Jack", "Ten", "Nine", "Eight", "Seven",
          "Six", "Five", "Four", "Three", "Two"}
Suits == {"Clubs", "Diamonds", "Hearts", "Spades"}

RankOrder == <<"King", "Ace", "Six", "Five", "Nine", "Two", "Seven", "Queen",
               "Jack", "Ten", "Eight", "Four", "Three">>
DrawRanks == {RankOrder[i] : i \in 1..NumRanks}

RANK_VALUES(rank) ==
    CASE rank = "Ace"   -> <<1, 11>>
      [] rank = "King"  -> <<FACE_CARD_VALUE>>
      [] rank = "Queen" -> <<FACE_CARD_VALUE>>
      [] rank = "Jack"  -> <<FACE_CARD_VALUE>>
      [] rank = "Ten"   -> <<FACE_CARD_VALUE>>
      [] rank = "Nine"  -> <<9>>
      [] rank = "Eight" -> <<8>>
      [] rank = "Seven" -> <<7>>
      [] rank = "Six"   -> <<6>>
      [] rank = "Five"  -> <<5>>
      [] rank = "Four"  -> <<4>>
      [] rank = "Three" -> <<3>>
      [] rank = "Two"   -> <<2>>

----------------------------------------------------------------------------
\* Player: the hand evaluator.

\* sumsCopy[j] += cardValue for every j
AddToAll(sums, cardValue) == [j \in 1..Len(sums) |-> sums[j] + cardValue]

RECURSIVE NewSums(_, _, _)
\* the inner loop over cardValues: newSums = newSums.concat(sumsCopy)
NewSums(sums, cardValues, k) ==
    IF k > Len(cardValues) THEN <<>>
    ELSE AddToAll(sums, cardValues[k]) \o NewSums(sums, cardValues, k + 1)

\* a faulty variant: duplicates are kept
removeDuplicates_none(numbers) == numbers

\* numbers.filter((elem, index, self) => index === self.indexOf(elem))
removeDuplicates(numbers) ==
    LET keep(i) == \A j \in 1..(i - 1) : numbers[j] # numbers[i]
        F[i \in 0..Len(numbers)] ==
            IF i = 0 THEN <<>>
            ELSE IF keep(i) THEN Append(F[i - 1], numbers[i]) ELSE F[i - 1]
    IN F[Len(numbers)]

RECURSIVE SumsAfter(_, _)
\* the outer loop of calculatePossibleHandValues over the first n cards
SumsAfter(cards, n) ==
    IF n = 0 THEN <<0>>
    ELSE NewSums(SumsAfter(cards, n - 1), RANK_VALUES(cards[n]), 1)

calculatePossibleHandValues(cards) == removeDuplicates(SumsAfter(cards, Len(cards)))

RECURSIVE SortDescending(_)
\* array.sort((a, b) => b - a)
SortDescending(s) ==
    IF Len(s) = 0 THEN <<>>
    ELSE LET m == CHOOSE i \in 1..Len(s) :
                    /\ \A j \in 1..Len(s) : s[j] <= s[i]
                    /\ \A j \in 1..(i - 1) : s[j] < s[i]
             rest == [j \in 1..(Len(s) - 1) |-> IF j < m THEN s[j] ELSE s[j + 1]]
         IN <<s[m]>> \o SortDescending(rest)

IsNonBusted(value) == value <= MAX_HAND_VALUE

recalculateNonBustedHandValues(handValues) ==
    SortDescending(SelectSeq(handValues, IsNonBusted))

\* a faulty variant: a soft total does not count, every total up to 21 must
\* have reached the minimum
recalculateHasReachedDealerMinimum_hard(handValues) ==
    /\ \E i \in 1..Len(handValues) : handValues[i] <= MAX_HAND_VALUE
    /\ \A i \in 1..Len(handValues) :
           handValues[i] <= MAX_HAND_VALUE => handValues[i] >= DEALER_MIN_GOAL

recalculateHasReachedDealerMinimum(handValues) ==
    \E i \in 1..Len(handValues) :
        handValues[i] >= DEALER_MIN_GOAL /\ handValues[i] <= MAX_HAND_VALUE

\* a faulty variant: some where the code has every
recalculateIsBusted_some(handState, handValues) ==
    IF \E i \in 1..Len(handValues) : handValues[i] > MAX_HAND_VALUE
    THEN "Busted" ELSE handState

\* handState after recalculateIsBusted
recalculateIsBusted(handState, handValues) ==
    IF \A i \in 1..Len(handValues) : handValues[i] > MAX_HAND_VALUE
    THEN "Busted" ELSE handState

highestNonBustedHandValue(player) ==
    IF Len(player.myNonBustedHandValues) > 0
    THEN player.myNonBustedHandValues[1] ELSE -1

\* a faulty variant: the number of cards is not looked at
recalculateHasBlackjack_anyLength(player) ==
    IF /\ highestNonBustedHandValue(player) = MAX_HAND_VALUE
       /\ \E k \in DOMAIN player.mycards : player.mycards[k] = "Ace"
    THEN "Blackjack" ELSE player.myHandState

\* handState after recalculateHasBlackjack
recalculateHasBlackjack(player) ==
    IF /\ Len(player.mycards) = 2
       /\ highestNonBustedHandValue(player) = MAX_HAND_VALUE
       /\ (player.mycards[1] = "Ace" \/ player.mycards[2] = "Ace")
    THEN "Blackjack" ELSE player.myHandState

\* new Player(identifier, name, bet, updateScoreFunction)
NewPlayer(identifier, bet) ==
    [identifier |-> identifier, bet |-> bet, mycards |-> <<>>,
     myHandState |-> "Normal", myNonBustedHandValues |-> <<>>,
     myHasReachedDealerMinimum |-> FALSE]

\* a faulty variant: the hand is evaluated over the cards just given only
giveCards_newOnly(player, cards) ==
    LET mycards == player.mycards \o cards
        handValues == calculatePossibleHandValues(cards)
        p1 == [player EXCEPT
                 !.mycards = mycards,
                 !.myHandState = recalculateIsBusted(player.myHandState, handValues),
                 !.myNonBustedHandValues = recalculateNonBustedHandValues(handValues),
                 !.myHasReachedDealerMinimum =
                     recalculateHasReachedDealerMinimum(handValues)]
    IN [p1 EXCEPT !.myHandState = recalculateHasBlackjack(p1)]

giveCards(player, cards) ==
    LET mycards == player.mycards \o cards
        handValues == calculatePossibleHandValues(mycards)
        p1 == [player EXCEPT
                 !.mycards = mycards,
                 !.myHandState = recalculateIsBusted(player.myHandState, handValues),
                 !.myNonBustedHandValues = recalculateNonBustedHandValues(handValues),
                 !.myHasReachedDealerMinimum =
                     recalculateHasReachedDealerMinimum(handValues)]
    IN [p1 EXCEPT !.myHandState = recalculateHasBlackjack(p1)]

\* a faulty variant: the hand state is left as it was
setSurrendered_none(player) == player

setSurrendered(player) == [player EXCEPT !.myHandState = "Surrendered"]

mayDrawCard(player) == player.myHandState = "Normal"

isDealer(player) == player.identifier = DEALER_IDENTIFIER

\* Player.isFirstTurn: the seat has not acted yet, it holds the two dealt cards
isFirstTurn(player) == Len(player.mycards) = 2

\* Player.doubleDown: the seat's bet is doubled
Player_doubleDown(player) == [player EXCEPT !.bet = 2 * player.bet]

\* a faulty variant: Math.round where the code has Math.floor
rewardPlayer_round(player, multiplierX2) ==
    IF ~isDealer(player) THEN (player.bet * multiplierX2 + 1) \div 2 ELSE 0

\* Player.rewardPlayer: Math.floor(bet * multiplier), 0 for the dealer
\* (multiplierX2 is the multiplier doubled)
rewardPlayer(player, multiplierX2) ==
    IF ~isDealer(player) THEN (player.bet * multiplierX2) \div 2 ELSE 0

\* The ledger: chat.alterUserScore(user, points), reached through the seat's
\* updateScoreFunction
updateScoreFunction(sc, identifier, points) ==
    [sc EXCEPT ![identifier] = @ + points]

\* a faulty variant: the bet is not taken from the ledger
confiscateBet_free(sc, player) == sc

\* Player.confiscateBet: no-op for the dealer
confiscateBet(sc, player) ==
    IF ~isDealer(player) THEN updateScoreFunction(sc, player.identifier, -player.bet)
    ELSE sc

\* Player.doubleDown: the matching additional bet is debited from the ledger
Player_doubleDown_ledger(sc, player) == confiscateBet(sc, player)

----------------------------------------------------------------------------
\* The host's timers.

TimerCallbacks == {"dealCards", "onPlayerTurnTimeout", "executeDealerTurn", "asyncSleep"}

\* The id setTimeout returns: one that no pending timer has and that the engine
\* does not hold any more
FreshTimerId(ts, heldId) ==
    CHOOSE n \in 1..(Cardinality(ts) + 2) :
        /\ n # heldId
        /\ \A t \in ts : t.id # n
        /\ \A m \in 1..(n - 1) : m = heldId \/ \E t \in ts : t.id = m

setTimeout(ts, heldId, callback) ==
    ts \cup {[id |-> FreshTimerId(ts, heldId), cb |-> callback]}

\* a faulty variant: the timer stays pending
clearTimeout_none(ts, timeoutId) == ts

\* clearTimeout: a no-op for an id that is not pending
clearTimeout(ts, timeoutId) == {t \in ts : t.id # timeoutId}

----------------------------------------------------------------------------
\* Deck and DeckFactory.

\* a faulty variant: one card of each rank per set
createDeck_oneSuit(numberOfCardSets) == [rank \in Ranks |-> numberOfCardSets]

\* DeckFactory.createDeck(numberOfCardSets): every suit and rank, once per set.
\* The shoe is kept as the number of cards left of each rank.
createDeck(numberOfCardSets) ==
    [rank \in Ranks |-> numberOfCardSets * Cardinality(Suits)]

DeckSize(d) ==
    LET RECURSIVE Sum(_)
        Sum(S) == IF S = {} THEN 0
                  ELSE LET r == CHOOSE x \in S : TRUE IN d[r] + Sum(S \ {r})
    IN Sum(Ranks)

\* Deck.shuffle followed by Deck.drawCard: the card on top of a shuffled shoe is
\* any card left in it (sets is the number of card sets the shoe was made of);
\* the shoe after the draw
AcesDrawn(d, sets) == createDeck(sets)["Ace"] - d["Ace"]
Drawable(d, sets) ==
    {rank \in DrawRanks :
        /\ d[rank] > 0
        /\ rank = "Ace" => AcesDrawn(d, sets) < MaxAces}
\* a faulty variant: the card drawn stays in the shoe
drawCard_keep(d, card) == d

drawCard(d, card) == [d EXCEPT ![card] = @ - 1]

----------------------------------------------------------------------------
\* BlackjackGame: helpers.

DealerRef == -1

\* a faulty variant: the dealer is current one seat early
currentPlayerRef_early(players, index) ==
    IF index >= Len(players) - 1 THEN DealerRef ELSE index

\* get currentPlayer, as a reference: the 0-based seat index, or DealerRef
currentPlayerRef(players, index) ==
    IF index >= Len(players) THEN DealerRef ELSE index

PlayerAt(players, d, ref) == IF ref = DealerRef THEN d ELSE players[ref + 1]

currentPlayer == PlayerAt(myPlayers, dealer, currentPlayerRef(myPlayers, playerTurnIndex))

\* a faulty variant: the game state is not looked at
isJoinable_always == TRUE

isJoinable == gameState = "INITIALIZING" \/ gameState = "AWAITING_PLAYERS"

\* a faulty variant: seats that may not draw are not skipped
NextTurnIndex_noSkip(players, index) == index + 1

RECURSIVE NextTurnIndex(_, _)
\* the index startNextPlayerTurn stops at: it skips seats that may not draw
NextTurnIndex(players, index) ==
    LET i == index + 1 IN
    IF i >= Len(players) THEN i
    ELSE IF ~mayDrawCard(players[i + 1]) THEN NextTurnIndex(players, i)
    ELSE i

\* a faulty variant: no timeout is scheduled
schedulePlayerTurnTimeout_none(ts, heldId) ==
    [timers |-> ts, playerTurnTimeoutId |-> heldId]

\* schedulePlayerTurnTimeout: the timers and the id the engine holds afterwards
schedulePlayerTurnTimeout(ts, heldId) ==
    [timers |-> setTimeout(ts, heldId, "onPlayerTurnTimeout"),
     playerTurnTimeoutId |-> FreshTimerId(ts, heldId)]

scheduleDealerTurn(ts, heldId) ==
    [timers |-> setTimeout(ts, heldId, "executeDealerTurn"),
     playerTurnTimeoutId |-> heldId]

\* startNextPlayerTurn: the turn index, timers and held timeout id afterwards,
\* and the player it returns
startNextPlayerTurn(players, index, ts, heldId) ==
    LET i == NextTurnIndex(players, index)
        sched == IF i >= Len(players) THEN scheduleDealerTurn(ts, heldId)
                 ELSE schedulePlayerTurnTimeout(ts, heldId)
    IN [playerTurnIndex |-> i, timers |-> sched.timers,
        playerTurnTimeoutId |-> sched.playerTurnTimeoutId,
        currentPlayer |-> currentPlayerRef(players, i)]

SeatRefs(players) == [i \in 1..Len(players) |-> i - 1]

\* a faulty variant: the seats are not looked at
thereAreNonBustedPlayersWithoutBlackjack_always(players) == TRUE

thereAreNonBustedPlayersWithoutBlackjack(players) ==
    \E i \in 1..Len(players) : players[i].myHandState = "Normal"

getBustedPlayers(players) ==
    SelectSeq(SeatRefs(players), LAMBDA r : players[r + 1].myHandState = "Busted")

getPlayersWithLowerScoreThanDealer(players, d) ==
    SelectSeq(SeatRefs(players), LAMBDA r :
        /\ players[r + 1].myHandState = "Normal"
        /\ highestNonBustedHandValue(players[r + 1]) < highestNonBustedHandValue(d))

\* a faulty variant: >= where the code has ===
getPlayersWithSameScoreAsDealer_orHigher(players, d) ==
    SelectSeq(SeatRefs(players), LAMBDA r :
        /\ players[r + 1].myHandState = "Normal"
        /\ highestNonBustedHandValue(players[r + 1]) >= highestNonBustedHandValue(d))

getPlayersWithSameScoreAsDealer(players, d) ==
    SelectSeq(SeatRefs(players), LAMBDA r :
        /\ players[r + 1].myHandState = "Normal"
        /\ highestNonBustedHandValue(players[r + 1]) = highestNonBustedHandValue(d))

\* a faulty variant: >= where the code has >
getPlayersWithHigherScoreThanDealer_orSame(players, d) ==
    SelectSeq(SeatRefs(players), LAMBDA r :
        /\ players[r + 1].myHandState = "Normal"
        /\ highestNonBustedHandValue(players[r + 1]) >= highestNonBustedHandValue(d))

getPlayersWithHigherScoreThanDealer(players, d) ==
    SelectSeq(SeatRefs(players), LAMBDA r :
        /\ players[r + 1].myHandState = "Normal"
        /\ highestNonBustedHandValue(players[r + 1]) > highestNonBustedHandValue(d))

getPlayersWithBlackjack(players) ==
    SelectSeq(SeatRefs(players), LAMBDA r : players[r + 1].myHandState = "Blackjack")

getSurrenderedPlayers(players) ==
    SelectSeq(SeatRefs(players), LAMBDA r : players[r + 1].myHandState = "Surrendered")

getGameConclusion(players, d) ==
    [dealerBusted |-> d.myHandState = "Busted",
     bustedPlayers |-> getBustedPlayers(players),
     lowerScoreThanDealerPlayers |-> getPlayersWithLowerScoreThanDealer(players, d),
     sameScoreAsDealerPlayers |-> getPlayersWithSameScoreAsDealer(players, d),
     higherScoreThanDealerPlayers |-> getPlayersWithHigherScoreThanDealer(players, d),
     playersWithBlackjack |-> getPlayersWithBlackjack(players),
     surrenderedPlayers |-> getSurrenderedPlayers(players)]

----------------------------------------------------------------------------
\* The state after the plugin has created the session manager of a chat: no
\* game is running.  The engine variables hold the fields of a BlackjackGame as
\* its constructor leaves them.

Init ==
    /\ game = "null"
    /\ myDealerBalance = 0
    /\ score = [u \in UserIds |-> StartScore]
    /\ gameState = "INITIALIZING"
    /\ myPlayers = <<>>
    /\ dealer = NewPlayer(DEALER_IDENTIFIER, 0)
    /\ playerTurnIndex = -1
    /\ playerTurnTimeoutId = 0
    /\ deck = [rank \in Ranks |-> 0]
    /\ timers = {}
    /\ events = <<>>
    /\ gamesCreated = 0
    /\ last = [op |-> "init"]

----------------------------------------------------------------------------
\* BlackjackGame: the player actions.

\* a faulty variant: the identifier is not compared
isTurnOf_anyone(identifier) == gameState = "PLAYER_TURNS"

\* the guard shared by stand, hit, surrender and doubleDown: the game is in
\* PLAYER_TURNS and the identifier is that of the current player
isTurnOf(identifier) ==
    /\ gameState = "PLAYER_TURNS"
    /\ currentPlayer.identifier = identifier

\* the seat (or dealer) field that holds the current player, after it became p
WithCurrentPlayer(p) ==
    IF playerTurnIndex >= Len(myPlayers)
    THEN [myPlayers |-> myPlayers, dealer |-> p]
    ELSE [myPlayers |-> [myPlayers EXCEPT ![playerTurnIndex + 1] = p], dealer |-> dealer]

\* stand once its two guards have passed: clearTimeout, then startNextPlayerTurn
standAccepted ==
    startNextPlayerTurn(myPlayers, playerTurnIndex,
                        clearTimeout(timers, playerTurnTimeoutId), playerTurnTimeoutId)

stand(identifier) ==
    IF ~isTurnOf(identifier)
    THEN /\ last' = [op |-> "stand", identifier |-> identifier, result |-> "null"]
         /\ UNCHANGED <<mgrVars, engineVars, events, gamesCreated>>
    ELSE LET next == standAccepted
         IN /\ playerTurnIndex' = next.playerTurnIndex
            /\ timers' = next.timers
            /\ playerTurnTimeoutId' = next.playerTurnTimeoutId
            /\ last' = [op |-> "stand", identifier |-> identifier, result |-> "ok",
                        nextPlayer |-> next.currentPlayer]
            /\ UNCHANGED <<mgrVars, gameState, myPlayers, dealer, deck, events,
                           gamesCreated>>

surrender(identifier) ==
    IF ~isTurnOf(identifier)
    THEN /\ last' = [op |-> "surrender", identifier |-> identifier, result |-> "null"]
         /\ UNCHANGED <<mgrVars, engineVars, events, gamesCreated>>
    ELSE IF isFirstTurn(currentPlayer)
    THEN LET after == WithCurrentPlayer(setSurrendered(currentPlayer))
             cleared == clearTimeout(timers, playerTurnTimeoutId)
             next == startNextPlayerTurn(after.myPlayers, playerTurnIndex, cleared,
                                         playerTurnTimeoutId)
         IN /\ myPlayers' = after.myPlayers
            /\ dealer' = after.dealer
            /\ playerTurnIndex' = next.playerTurnIndex
            /\ timers' = next.timers
            /\ playerTurnTimeoutId' = next.playerTurnTimeoutId
            /\ last' = [op |-> "surrender", identifier |-> identifier, result |-> "ok",
                        nextPlayer |-> next.currentPlayer]
            /\ UNCHANGED <<mgrVars, gameState, deck, events, gamesCreated>>
    ELSE /\ last' = [op |-> "surrender", identifier |-> identifier,
                     result |-> "Surrendering is no longer allowed!"]
         /\ UNCHANGED <<mgrVars, engineVars, events, gamesCreated>>

hit(identifier) ==
    IF ~isTurnOf(identifier)
    THEN /\ last' = [op |-> "hit", identifier |-> identifier, result |-> "null"]
         /\ UNCHANGED <<mgrVars, engineVars, events, gamesCreated>>
    ELSE \E drawnCard \in Drawable(deck, Len(myPlayers)) :
         LET cleared == clearTimeout(timers, playerTurnTimeoutId)
             theCurrentPlayer == giveCards(currentPlayer, <<drawnCard>>)
             after == WithCurrentPlayer(theCurrentPlayer)
             next == IF theCurrentPlayer.myHandState = "Busted"
                     THEN startNextPlayerTurn(after.myPlayers, playerTurnIndex, cleared,
                                              playerTurnTimeoutId)
                     ELSE [playerTurnIndex |-> playerTurnIndex,
                           currentPlayer |-> currentPlayerRef(myPlayers, playerTurnIndex)]
                          @@ schedulePlayerTurnTimeout(cleared, playerTurnTimeoutId)
         IN /\ deck' = drawCard(deck, drawnCard)
            /\ myPlayers' = after.myPlayers
            /\ dealer' = after.dealer
            /\ playerTurnIndex' = next.playerTurnIndex
            /\ timers' = next.timers
            /\ playerTurnTimeoutId' = next.playerTurnTimeoutId
            /\ last' = [op |-> "hit", identifier |-> identifier, result |-> "ok",
                        card |-> drawnCard,
                        currentPlayer |-> currentPlayerRef(myPlayers, playerTurnIndex),
                        nextPlayer |-> next.currentPlayer]
            /\ UNCHANGED <<mgrVars, gameState, events, gamesCreated>>

\* doubleDown(user): user.id and user.score are read from the ledger
doubleDown(identifier) ==
    IF ~isTurnOf(identifier)
    THEN /\ last' = [op |-> "doubleDown", identifier |-> identifier, result |-> "null"]
         /\ UNCHANGED <<mgrVars, engineVars, events, gamesCreated>>
    ELSE IF ~isFirstTurn(currentPlayer)
    THEN /\ last' = [op |-> "doubleDown", identifier |-> identifier,
                     result |-> "Doubling down is no longer allowed!"]
         /\ UNCHANGED <<mgrVars, engineVars, events, gamesCreated>>
    ELSE IF score[identifier] < currentPlayer.bet
    THEN /\ last' = [op |-> "doubleDown", identifier |-> identifier,
                     result |-> "You don't have enough points to double down!"]
         /\ UNCHANGED <<mgrVars, engineVars, events, gamesCreated>>
    ELSE \E drawnCard \in Drawable(deck, Len(myPlayers)) :
         LET cleared == clearTimeout(timers, playerTurnTimeoutId)
             doubled == Player_doubleDown(currentPlayer)
             theCurrentPlayer == giveCards(doubled, <<drawnCard>>)
             after == WithCurrentPlayer(theCurrentPlayer)
             next == startNextPlayerTurn(after.myPlayers, playerTurnIndex, cleared,
                                         playerTurnTimeoutId)
         IN /\ score' = Player_doubleDown_ledger(score, currentPlayer)
            /\ deck' = drawCard(deck, drawnCard)
            /\ myPlayers' = after.myPlayers
            /\ dealer' = after.dealer
            /\ playerTurnIndex' = next.playerTurnIndex
            /\ timers' = next.timers
            /\ playerTurnTimeoutId' = next.playerTurnTimeoutId
            /\ last' = [op |-> "doubleDown", identifier |-> identifier, result |-> "ok",
                        card |-> drawnCard,
                        currentPlayer |-> currentPlayerRef(myPlayers, playerTurnIndex),
                        nextPlayer |-> next.currentPlayer]
            /\ UNCHANGED <<game, myDealerBalance, gameState, events, gamesCreated>>

----------------------------------------------------------------------------
\* BlackjackGame: the timer callbacks.

RECURSIVE DrawAll(_, _, _)
\* the shoe after the first k cards of the sequence were drawn from it
DrawAll(d, cards, k) ==
    IF k = 0 THEN d ELSE drawCard(DrawAll(d, cards, k - 1), cards[k])

\* the sequences of cards a shuffled shoe can yield on its first n draws
Draws(d, n) ==
    {cards \in [1..n -> DrawRanks] :
        \A rank \in DrawRanks :
            /\ Cardinality({k \in 1..n : cards[k] = rank}) <= d[rank]
            /\ rank = "Ace" => Cardinality({k \in 1..n : cards[k] = rank}) <= MaxAces}

\* The join window timer fires.  dealCards does not look at the game state.
dealCards(t) ==
    /\ t \in timers
    /\ t.cb = "dealCards"
    /\ LET n == Len(myPlayers)
           fresh == createDeck(n)
       IN \E cards \in Draws(fresh, 2 * n + 1) :
          LET first == [i \in 1..n |-> giveCards(myPlayers[i], <<cards[i]>>)]
              players == [i \in 1..n |-> giveCards(first[i], <<cards[n + 1 + i]>>)]
              next == startNextPlayerTurn(players, playerTurnIndex, timers \ {t},
                                          playerTurnTimeoutId)
          IN /\ deck' = DrawAll(fresh, cards, 2 * n + 1)
             /\ myPlayers' = players
             /\ dealer' = giveCards(dealer, <<cards[n + 1]>>)
             /\ gameState' = "PLAYER_TURNS"
             /\ playerTurnIndex' = next.playerTurnIndex
             /\ timers' = next.timers
             /\ playerTurnTimeoutId' = next.playerTurnTimeoutId
             /\ events' = Append(events, [type |-> "onCardsDealt",
                                          startingPlayer |-> next.currentPlayer])
             /\ last' = [op |-> "dealCards"]
             /\ UNCHANGED <<mgrVars, gamesCreated>>

\* A turn timeout fires.  The callback does not look at the game state.
onPlayerTurnTimeout(t) ==
    /\ t \in timers
    /\ t.cb = "onPlayerTurnTimeout"
    /\ LET timedOutPlayer == currentPlayerRef(myPlayers, playerTurnIndex)
           next == startNextPlayerTurn(myPlayers, playerTurnIndex, timers \ {t},
                                       playerTurnTimeoutId)
       IN /\ playerTurnIndex' = next.playerTurnIndex
          /\ timers' = next.timers
          /\ playerTurnTimeoutId' = next.playerTurnTimeoutId
          /\ events' = Append(events, [type |-> "onPlayerTurnTimedOut",
                                       timedOutPlayer |-> timedOutPlayer,
                                       nextPlayer |-> next.currentPlayer])
          /\ last' = [op |-> "onPlayerTurnTimeout"]
          /\ UNCHANGED <<mgrVars, gameState, myPlayers, dealer, deck, gamesCreated>>

RECURSIVE rewardPlayers(_, _, _, _)
\* ChatGameManager.rewardPlayers: the ledger and the dealer balance after every
\* player of the list was rewarded
rewardPlayers(st, players, refs, multiplierX2) ==
    IF Len(refs) = 0 THEN st
    ELSE LET player == players[Head(refs) + 1]
             awarded == rewardPlayer(player, multiplierX2)
             credited == IF ~isDealer(player)
                         THEN updateScoreFunction(st.score, player.identifier, awarded)
                         ELSE st.score
         IN rewardPlayers([score |-> credited,
                           myDealerBalance |-> st.myDealerBalance - awarded],
                          players, Tail(refs), multiplierX2)

\* a faulty variant: the seats equal to the dealer are paid a second time
rewardPlayersOnGameConclusion_equalTwice(st, players, conclusion) ==
    LET s1 == rewardPlayers(st, players, conclusion.playersWithBlackjack,
                            BET_MULTIPLIER_ON_BLACKJACK_X2)
        s2 == rewardPlayers(s1, players, conclusion.higherScoreThanDealerPlayers,
                            BET_MULTIPLIER_ON_WIN_X2)
        s3 == rewardPlayers(s2, players, conclusion.sameScoreAsDealerPlayers,
                            BET_MULTIPLIER_ON_EVEN_X2)
        s4 == rewardPlayers(s3, players, conclusion.sameScoreAsDealerPlayers,
                            BET_MULTIPLIER_ON_EVEN_X2)
    IN rewardPlayers(s4, players, conclusion.surrenderedPlayers,
                     BET_MULTIPLIER_ON_SURRENDER_X2)

rewardPlayersOnGameConclusion(st, players, conclusion) ==
    LET s1 == rewardPlayers(st, players, conclusion.playersWithBlackjack,
                            BET_MULTIPLIER_ON_BLACKJACK_X2)
        s2 == rewardPlayers(s1, players, conclusion.higherScoreThanDealerPlayers,
                            BET_MULTIPLIER_ON_WIN_X2)
        s3 == rewardPlayers(s2, players, conclusion.sameScoreAsDealerPlayers,
                            BET_MULTIPLIER_ON_EVEN_X2)
    IN rewardPlayers(s3, players, conclusion.surrenderedPlayers,
                     BET_MULTIPLIER_ON_SURRENDER_X2)

\* The end of executeDealerTurn: the conclusion is computed and handed to the
\* listener, ChatGameManager.onGameEnded, which pays out and drops the game.
EndGame(ts) ==
    LET conclusion == getGameConclusion(myPlayers, dealer)
        paid == rewardPlayersOnGameConclusion(
                    [score |-> score, myDealerBalance |-> myDealerBalance],
                    myPlayers, conclusion)
    IN /\ gameState' = "ENDED"
       /\ timers' = ts
       /\ events' = Append(events, [type |-> "onGameEnded", conclusion |-> conclusion])
       /\ score' = paid.score
       /\ myDealerBalance' = paid.myDealerBalance
       /\ game' = "null"
       /\ UNCHANGED <<myPlayers, dealer, deck, playerTurnIndex, playerTurnTimeoutId>>

\* One pass of the while loop of executeDealerTurn, up to its await; state is
\* the game state the pass runs in
DealerLoop(ts, state) ==
    IF dealer.myHandState = "Normal" /\ ~dealer.myHasReachedDealerMinimum
    THEN \E newCard \in Drawable(deck, Len(myPlayers)) :
         /\ deck' = drawCard(deck, newCard)
         /\ dealer' = giveCards(dealer, <<newCard>>)
         /\ events' = Append(events, [type |-> "onDealerDrewCard", card |-> newCard])
         /\ timers' = setTimeout(ts, playerTurnTimeoutId, "asyncSleep")
         /\ gameState' = state
         /\ UNCHANGED <<mgrVars, myPlayers, playerTurnIndex, playerTurnTimeoutId>>
    ELSE EndGame(ts)

\* The delay before the dealer's turn has passed
executeDealerTurn(t) ==
    /\ t \in timers
    /\ t.cb = "executeDealerTurn"
    /\ IF thereAreNonBustedPlayersWithoutBlackjack(myPlayers)
       THEN DealerLoop(timers \ {t}, "DEALER_TURN")
       ELSE EndGame(timers \ {t})
    /\ last' = [op |-> "executeDealerTurn"]
    /\ UNCHANGED gamesCreated

\* The delay after a dealer draw has passed: executeDealerTurn resumes its loop
asyncSleep(t) ==
    /\ t \in timers
    /\ t.cb = "asyncSleep"
    /\ DealerLoop(timers \ {t}, gameState)
    /\ last' = [op |-> "asyncSleep"]
    /\ UNCHANGED gamesCreated

----------------------------------------------------------------------------
\* BlackjackGame: joining and initializing.

\* joinGame(player) with a player made from the identifier and the bet
joinGame(identifier, bet) ==
    IF ~isJoinable
    THEN /\ last' = [op |-> "joinGame", identifier |-> identifier,
                     result |-> "It's no longer possible to join the game!"]
         /\ UNCHANGED <<mgrVars, engineVars, events, gamesCreated>>
    ELSE /\ myPlayers' = Append(myPlayers, NewPlayer(identifier, bet))
         /\ last' = [op |-> "joinGame", identifier |-> identifier, result |-> "ok"]
         /\ UNCHANGED <<mgrVars, gameState, dealer, playerTurnIndex, playerTurnTimeoutId,
                        deck, timers, events, gamesCreated>>

\* a faulty variant: the game state is not looked at
isInitializing_always == TRUE

\* the test of initializeGame: this.gameState === GameState.INITIALIZING
isInitializing == gameState = "INITIALIZING"

\* initializeGame(), called on the engine by whoever holds it
initializeGame ==
    IF ~isInitializing
    THEN /\ last' = [op |-> "initializeGame",
                     result |-> "Game has already been initialized - this is a programming error!"]
         /\ UNCHANGED <<mgrVars, engineVars, events, gamesCreated>>
    ELSE /\ gameState' = "AWAITING_PLAYERS"
         /\ timers' = setTimeout(timers, playerTurnTimeoutId, "dealCards")
         /\ last' = [op |-> "initializeGame", result |-> "ok"]
         /\ UNCHANGED <<mgrVars, myPlayers, dealer, playerTurnIndex, playerTurnTimeoutId,
                        deck, events, gamesCreated>>

----------------------------------------------------------------------------
\* ChatGameManager.

\* a faulty variant: a running game is not noticed
gameIsRunning_never == FALSE

gameIsRunning == game # "null"

\* a faulty variant: the bet is not validated
createPlayerFromUser_anyBet(user, bet) == "ok"

\* createPlayerFromUser: the error text, or "ok" when a Player is returned
createPlayerFromUser(user, bet) ==
    IF score[user] < bet THEN "You don't have enough points to make that bet!"
    ELSE IF bet < 1 THEN "Your bet must be a whole, positive number!"
    ELSE "ok"

ChatGameManager_startNewGame(user, bet) ==
    IF gameIsRunning
    THEN /\ last' = [op |-> "startNewGame", identifier |-> user,
                     result |-> "There's already a game ongoing!"]
         /\ UNCHANGED <<mgrVars, engineVars, events, gamesCreated>>
    ELSE IF createPlayerFromUser(user, bet) # "ok"
    THEN /\ last' = [op |-> "startNewGame", identifier |-> user,
                     result |-> createPlayerFromUser(user, bet)]
         /\ UNCHANGED <<mgrVars, engineVars, events, gamesCreated>>
    ELSE LET player == NewPlayer(user, bet) IN
         /\ gamesCreated < MaxGames
         \* createGame: new BlackjackGame(deckFactory), joinGame(player), subscribe
         /\ game' = "game"
         /\ gamesCreated' = gamesCreated + 1
         /\ myPlayers' = <<player>>
         /\ dealer' = NewPlayer(DEALER_IDENTIFIER, 0)
         /\ playerTurnIndex' = -1
         /\ playerTurnTimeoutId' = 0
         /\ deck' = [rank \in Ranks |-> 0]
         /\ events' = <<>>
         \* initializeGame
         /\ gameState' = "AWAITING_PLAYERS"
         /\ timers' = setTimeout(timers, 0, "dealCards")
         \* confiscateBet, updateDealerBalance
         /\ score' = confiscateBet(score, player)
         /\ myDealerBalance' = myDealerBalance + bet
         /\ last' = [op |-> "startNewGame", identifier |-> user, result |-> "ok"]

ChatGameManager_joinGame(user, bet) ==
    IF ~gameIsRunning
    THEN /\ last' = [op |-> "joinGame", identifier |-> user, result |-> "null"]
         /\ UNCHANGED <<mgrVars, engineVars, events, gamesCreated>>
    ELSE IF createPlayerFromUser(user, bet) # "ok"
    THEN /\ last' = [op |-> "joinGame", identifier |-> user,
                     result |-> createPlayerFromUser(user, bet)]
         /\ UNCHANGED <<mgrVars, engineVars, events, gamesCreated>>
    ELSE IF ~isJoinable
    THEN /\ last' = [op |-> "joinGame", identifier |-> user,
                     result |-> "It's no longer possible to join the game!"]
         /\ UNCHANGED <<mgrVars, engineVars, events, gamesCreated>>
    ELSE LET player == NewPlayer(user, bet) IN
         /\ myPlayers' = Append(myPlayers, player)
         /\ score' = confiscateBet(score, player)
         /\ myDealerBalance' = myDealerBalance + bet
         /\ last' = [op |-> "joinGame", identifier |-> user, result |-> "ok"]
         /\ UNCHANGED <<game, gameState, dealer, playerTurnIndex, playerTurnTimeoutId,
                        deck, timers, events, gamesCreated>>

\* stand, surrender, hit, doubleDown of the manager: passed on to the game when
\* one is running, otherwise nothing is returned
NoGameRunning(op, user) ==
    /\ last' = [op |-> op, identifier |-> user, result |-> "undefined"]
    /\ UNCHANGED <<mgrVars, engineVars, events, gamesCreated>>

ChatGameManager_stand(userId) ==
    IF gameIsRunning THEN stand(userId) ELSE NoGameRunning("stand", userId)

ChatGameManager_surrender(userId) ==
    IF gameIsRunning THEN surrender(userId) ELSE NoGameRunning("surrender", userId)

ChatGameManager_hit(userId) ==
    IF gameIsRunning THEN hit(userId) ELSE NoGameRunning("hit", userId)

ChatGameManager_doubleDown(user) ==
    IF gameIsRunning THEN doubleDown(user) ELSE NoGameRunning("doubleDown", user)

----------------------------------------------------------------------------
\* The first round of a session as the plugin drives it: users call the manager
\* and timers fire.  Once the manager has dropped the game of the finished round,
\* a caller that still holds that BlackjackGame calls it directly.

FirstRound == gamesCreated <= 1
SeatsInBound == Len(myPlayers) <= MaxSeats
DroppedGame == game = "null" /\ gameState = "ENDED"

Next ==
    \/ \E user \in UserIds, bet \in BetInputs :
           ChatGameManager_startNewGame(user, bet) /\ FirstRound'
    \/ \E user \in UserIds, bet \in BetInputs :
           ChatGameManager_joinGame(user, bet) /\ SeatsInBound'
    \/ \E user \in UserIds : ChatGameManager_stand(user)
    \/ \E user \in UserIds : ChatGameManager_surrender(user)
    \/ \E user \in UserIds : ChatGameManager_hit(user)
    \/ \E user \in UserIds : ChatGameManager_doubleDown(user)
    \/ \E t \in timers : dealCards(t)
    \/ \E t \in timers : onPlayerTurnTimeout(t)
    \/ \E t \in timers : executeDealerTurn(t)
    \/ \E t \in timers : asyncSleep(t)
    \/ \E user \in UserIds, bet \in BetInputs :
           DroppedGame /\ joinGame(user, bet) /\ SeatsInBound'
    \/ \E user \in UserIds : DroppedGame /\ stand(user)
    \/ \E user \in UserIds : DroppedGame /\ surrender(user)
    \/ \E user \in UserIds : DroppedGame /\ hit(user)
    \/ \E user \in UserIds : DroppedGame /\ doubleDown(user)

Spec == Init /\ [][Next]_vars

----------------------------------------------------------------------------
\* Up to MaxGames rounds of a session, one after the other.  The shuffles
\* explored put no ace on top of the shoe and every bet is 0 or 1.

NoAceDrawn == deck["Ace"] = 0 \/ AcesDrawn(deck, Len(myPlayers)) = 0
SessionBets == {0, 1}

NextSession ==
    \/ \E user \in UserIds, bet \in SessionBets : ChatGameManager_startNewGame(user, bet)
    \/ \E user \in UserIds, bet \in SessionBets :
           ChatGameManager_joinGame(user, bet) /\ SeatsInBound'
    \/ \E user \in UserIds : ChatGameManager_stand(user)
    \/ \E user \in UserIds : ChatGameManager_surrender(user)
    \/ \E user \in UserIds : ChatGameManager_hit(user) /\ NoAceDrawn'
    \/ \E user \in UserIds : ChatGameManager_doubleDown(user) /\ NoAceDrawn'
    \/ \E t \in timers : dealCards(t) /\ NoAceDrawn'
    \/ \E t \in timers : onPlayerTurnTimeout(t)
    \/ \E t \in timers : executeDealerTurn(t) /\ NoAceDrawn'
    \/ \E t \in timers : asyncSleep(t) /\ NoAceDrawn'

SpecSession == Init /\ [][NextSession]_vars

\* The host fires a pending timer once its delay has passed, unless it was
\* cleared before: a timer callback that stays enabled is run.  A callback is
\* enabled exactly while its timer is pending; for dealCards and
\* executeDealerTurn weak fairness is written out with that condition.
TimerPending(cb) == \E t \in timers : t.cb = cb

TimersFire ==
    /\ WF_vars(\E t \in timers : onPlayerTurnTimeout(t))
    /\ WF_vars(\E t \in timers : asyncSleep(t) /\ NoAceDrawn')
    /\ \/ []<>(~TimerPending("dealCards"))
       \/ []<><<\E t \in timers : dealCards(t) /\ NoAceDrawn'>>_vars
    /\ \/ []<>(~TimerPending("executeDealerTurn"))
       \/ []<><<\E t \in timers : executeDealerTurn(t) /\ NoAceDrawn'>>_vars

SpecSessionFair == SpecSession /\ TimersFire

----------------------------------------------------------------------------
\* Player.rewardPlayer on its own: one Player object, the dealer or a seat of
\* user 1 with any bet of 1..MaxRewardBet, is rewarded once with any multiplier
\* of 0, 0.5, 1, ... MaxMultiplierX2 / 2, as ChatGameManager.rewardPlayers does
\* for a player of a list of the conclusion.

\* a state in which the engine holds the player p as its only one and nothing
\* has happened yet
OnlyPlayer(p) ==
    /\ game = "null"
    /\ myDealerBalance = 0
    /\ score = [u \in UserIds |-> StartScore]
    /\ gameState = "INITIALIZING"
    /\ myPlayers = <<p>>
    /\ dealer = NewPlayer(DEALER_IDENTIFIER, 0)
    /\ playerTurnIndex = -1
    /\ playerTurnTimeoutId = 0
    /\ deck = [rank \in Ranks |-> 0]
    /\ timers = {}
    /\ events = <<>>
    /\ gamesCreated = 0
    /\ last = [op |-> "init"]

RewardedPlayers ==
    {NewPlayer(DEALER_IDENTIFIER, 0)} \cup {NewPlayer(1, bet) : bet \in 1..MaxRewardBet}

InitReward == \E p \in RewardedPlayers : OnlyPlayer(p)

\* rewardPlayers([player], multiplier) of the manager: player.rewardPlayer and
\* the update of the dealer balance
ChatGameManager_rewardPlayers(multiplierX2) ==
    /\ last.op = "init"
    /\ LET paid == rewardPlayers([score |-> score, myDealerBalance |-> myDealerBalance],
                                 myPlayers, <<0>>, multiplierX2)
       IN /\ score' = paid.score
          /\ myDealerBalance' = paid.myDealerBalance
    /\ last' = [op |-> "rewardPlayers", multiplierX2 |-> multiplierX2,
                reward |-> rewardPlayer(myPlayers[1], multiplierX2)]
    /\ UNCHANGED <<game, engineVars, events, gamesCreated>>

NextReward == \E multiplierX2 \in 0..MaxMultiplierX2 : ChatGameManager_rewardPlayers(multiplierX2)

SpecReward == InitReward /\ [][NextReward]_vars

----------------------------------------------------------------------------
\* Player.giveCards on its own: one seat is given cards of any rank, one at a
\* time as dealCards, hit and doubleDown give them, for as long as it may draw.

InitHand == OnlyPlayer(NewPlayer(1, 1))

Player_giveCards(card) ==
    /\ mayDrawCard(myPlayers[1])
    /\ Len(myPlayers[1].mycards) < MaxHandCards
    /\ myPlayers' = <<giveCards(myPlayers[1], <<card>>)>>
    /\ last' = [op |-> "giveCards", card |-> card]
    /\ UNCHANGED <<mgrVars, gameState, dealer, playerTurnIndex, playerTurnTimeoutId,
                   deck, timers, events, gamesCreated>>

NextHand == \E card \in Ranks : Player_giveCards(card)

SpecHand == InitHand /\ [][NextHand]_vars

-----------------------------------------------------------------------------
\* Player.giveCards called both ways: the first seat is given cards of any rank
\* one call per card, the second is a new seat given the same cards in one
\* call. giveCards itself does not look at mayDrawCard.

InitGive ==
    /\ game = "null"
    /\ myDealerBalance = 0
    /\ score = [u \in UserIds |-> StartScore]
    /\ gameState = "INITIALIZING"
    /\ myPlayers = <<NewPlayer(1, 1), NewPlayer(1, 1)>>
    /\ dealer = NewPlayer(DEALER_IDENTIFIER, 0)
    /\ playerTurnIndex = -1
    /\ playerTurnTimeoutId = 0
    /\ deck = [rank \in Ranks |-> 0]
    /\ timers = {}
    /\ events = <<>>
    /\ gamesCreated = 0
    /\ last = [op |-> "init"]

Player_giveCardsBothWays(card) ==
    /\ Len(myPlayers[1].mycards) < MaxHandCards
    /\ myPlayers' = <<giveCards(myPlayers[1], <<card>>),
                      giveCards(NewPlayer(1, 1), Append(myPlayers[1].mycards, card))>>
    /\ last' = [op |-> "giveCards", card |-> card]
    /\ UNCHANGED <<mgrVars, gameState, dealer, playerTurnIndex, playerTurnTimeoutId,
                   deck, timers, events, gamesCreated>>

NextGive == \E card \in Ranks : Player_giveCardsBothWays(card)

SpecGive == InitGive /\ [][NextGive]_vars

----------------------------------------------------------------------------
\* The join window of the first round on its own, with more users and seats:
\* a user starts a game and users join it; the join window timer stays pending.

JoinUsers == 1..NumJoinUsers

InitJoin ==
    /\ game = "null"
    /\ myDealerBalance = 0
    /\ score = [u \in JoinUsers |-> StartScore]
    /\ gameState = "INITIALIZING"
    /\ myPlayers = <<>>
    /\ dealer = NewPlayer(DEALER_IDENTIFIER, 0)
    /\ playerTurnIndex = -1
    /\ playerTurnTimeoutId = 0
    /\ deck = [rank \in Ranks |-> 0]
    /\ timers = {}
    /\ events = <<>>
    /\ gamesCreated = 0
    /\ last = [op |-> "init"]

NextJoin ==
    \/ \E user \in JoinUsers, bet \in BetInputs : ChatGameManager_startNewGame(user, bet)
    \/ \E user \in JoinUsers, bet \in BetInputs :
           ChatGameManager_joinGame(user, bet) /\ Len(myPlayers') <= MaxJoinSeats

SpecJoin == InitJoin /\ [][NextJoin]_vars

----------------------------------------------------------------------------
\* The dealer's turn on its own.  User 1 has started a game with bet 1, the
\* join window has passed and the shoe has dealt any two cards to the seat and
\* any card to the dealer; the seat, if it got the turn, has stood.  The delay
\* before the dealer's turn is pending.  The cards drawn from here on are those
\* of the shuffles explored (DrawRanks).

\* the state described, for the cards dealt to the seat, the dealer, the seat
DealtAndStood(first, dealerCard, second) ==
    LET seat == giveCards(giveCards(NewPlayer(1, 1), <<first>>), <<second>>)
        dealt == startNextPlayerTurn(<<seat>>, -1, {}, 0)
        stood == IF dealt.playerTurnIndex >= 1 THEN dealt
                 ELSE startNextPlayerTurn(
                          <<seat>>, dealt.playerTurnIndex,
                          clearTimeout(dealt.timers, dealt.playerTurnTimeoutId),
                          dealt.playerTurnTimeoutId)
    IN /\ game = "game"
       /\ myDealerBalance = 1
       /\ score = [u \in UserIds |-> IF u = 1 THEN StartScore - 1 ELSE StartScore]
       /\ gameState = "PLAYER_TURNS"
       /\ myPlayers = <<seat>>
       /\ dealer = giveCards(NewPlayer(DEALER_IDENTIFIER, 0), <<dealerCard>>)
       /\ playerTurnIndex = stood.playerTurnIndex
       /\ playerTurnTimeoutId = stood.playerTurnTimeoutId
       /\ deck = DrawAll(createDeck(1), <<first, dealerCard, second>>, 3)
       /\ timers = stood.timers
       /\ events = <<[type |-> "onCardsDealt", startingPlayer |-> dealt.currentPlayer]>>
       /\ gamesCreated = 1
       /\ last = IF dealt.playerTurnIndex >= 1 THEN [op |-> "dealCards"]
                 ELSE [op |-> "stand", identifier |-> 1, result |-> "ok",
                       nextPlayer |-> stood.currentPlayer]

InitDealer ==
    \E first \in Ranks, dealerCard \in Ranks, second \in Ranks :
        DealtAndStood(first, dealerCard, second)

NextDealer ==
    \/ \E t \in timers : executeDealerTurn(t)
    \/ \E t \in timers : asyncSleep(t)

SpecDealer == InitDealer /\ [][NextDealer]_vars

-----------------------------------------------------------------------------
\* The delay before the dealer's turn, with the public methods of the engine
\* called directly: the identifier of stand, surrender and hit is a number, any
\* user's or the dealer's (Player.DEALER_IDENTIFIER); doubleDown takes a user
\* of the ledger.

DealtRanks == {RankOrder[i] : i \in 1..NumDealtRanks}

InitDealerDelay ==
    \E first \in DealtRanks, dealerCard \in DealtRanks, second \in DealtRanks :
        DealtAndStood(first, dealerCard, second)

Callers == UserIds \cup {DEALER_IDENTIFIER}
DealerCallsInBound == playerTurnIndex < Len(myPlayers) + MaxDealerCalls

NextDealerDelay ==
    \/ \E identifier \in Callers : DealerCallsInBound /\ stand(identifier)
    \/ \E identifier \in Callers : DealerCallsInBound /\ surrender(identifier)
    \/ \E identifier \in Callers : DealerCallsInBound /\ hit(identifier)
    \/ \E user \in UserIds : DealerCallsInBound /\ doubleDown(user)
    \/ \E t \in timers : onPlayerTurnTimeout(t)
    \/ \E t \in timers : executeDealerTurn(t)
    \/ \E t \in timers : asyncSleep(t)

SpecDealerDelay == InitDealerDelay /\ [][NextDealerDelay]_vars

----------------------------------------------------------------------------
\* The first round of a session in which a caller that holds the BlackjackGame
\* the manager has created calls initializeGame on it again, at any time.  The
\* shuffles and bets are those of SpecSession.

EngineCreated == gamesCreated >= 1

NextInitialize ==
    \/ NextSession /\ FirstRound'
    \/ EngineCreated /\ initializeGame

SpecInitialize == Init /\ [][NextInitialize]_vars

----------------------------------------------------------------------------
\* Properties.  `last` names the operation of the step that led to a state and
\* what it returned; `events` is what the listeners of the round were sent.

PlayerOps == {"stand", "hit", "surrender", "doubleDown"}

\* the turn timeouts among the pending timers
TurnTimeouts(ts) == {t \in ts : t.cb = "onPlayerTurnTimeout"}

\* the seats the listeners were told have timed out
TimedOutSeats ==
    {events[i].timedOutPlayer :
        i \in {j \in DOMAIN events : events[j].type = "onPlayerTurnTimedOut"}}

\* C1: a stand, hit, surrender or doubleDown that reaches the engine with an
\* identifier other than that of the current player, or while the game state is
\* not PLAYER_TURNS, returns nothing and leaves the engine as it was: game state,
\* turn index, every seat (cards, hand state, bet), the dealer, the shoe, the
\* pending timers and the timeout id held; the ledger and the listeners see
\* nothing either.
RejectedLeavesEngine ==
    [][ (/\ last'.op \in PlayerOps
         /\ last'.result # "undefined"
         /\ (gameState # "PLAYER_TURNS" \/ currentPlayer.identifier # last'.identifier))
        => /\ last'.result = "null"
           /\ UNCHANGED <<gameState, playerTurnIndex, myPlayers, dealer, deck, timers,
                          playerTurnTimeoutId>>
           /\ UNCHANGED <<game, score, myDealerBalance, events>> ]_vars

\* C1, its case: during the turn of a seat, with its timeout pending, another
\* user's action has just been turned down.
RejectedOutOfTurnSeen ==
    /\ last.op \in PlayerOps
    /\ last.result = "null"
    /\ gameState = "PLAYER_TURNS"
    /\ playerTurnIndex < Len(myPlayers)
    /\ currentPlayer.identifier # last.identifier
    /\ \E t \in TurnTimeouts(timers) : t.id = playerTurnTimeoutId

\* C2: (a) when an action is accepted, the turn timeout that was pending is
\* cancelled, so it cannot fire later, and the seat acted on has not timed out
\* before; (b) a timeout that fires is the one held for the turn in progress, it
\* is a seat's turn, and the turn index moves on; (c) the turn index changes only
\* in an accepted action, in a timeout, when the cards are dealt or when a new
\* game is made; (d) after every step a pending turn timeout is the one held and
\* the turn it was scheduled for is still in progress.
ActionOrTimeout ==
    [][ /\ (last'.op \in PlayerOps /\ last'.result = "ok") =>
               /\ TurnTimeouts(timers) \cap timers' = {}
               /\ currentPlayerRef(myPlayers, playerTurnIndex) \notin TimedOutSeats
        /\ last'.op = "onPlayerTurnTimeout" =>
               /\ gameState = "PLAYER_TURNS"
               /\ playerTurnIndex \in 0..(Len(myPlayers) - 1)
               /\ timers \ timers' =
                      {[id |-> playerTurnTimeoutId, cb |-> "onPlayerTurnTimeout"]}
               /\ playerTurnIndex' > playerTurnIndex
        /\ playerTurnIndex' # playerTurnIndex =>
               \/ last'.op \in PlayerOps /\ last'.result = "ok"
               \/ last'.op \in {"onPlayerTurnTimeout", "dealCards", "startNewGame"}
        /\ \A t \in TurnTimeouts(timers') :
               /\ t.id = playerTurnTimeoutId'
               /\ gameState' = "PLAYER_TURNS"
               /\ playerTurnIndex' \in 0..(Len(myPlayers') - 1) ]_vars

\* C2, its case: in one round a seat has timed out and, later, an action of
\* another seat was accepted.
ActionAfterTimeoutSeen ==
    /\ last.op \in PlayerOps
    /\ last.result = "ok"
    /\ TimedOutSeats # {}

\* C3: (a) a startNewGame while a game is running returns the error text and
\* changes nothing; (b) a new BlackjackGame is made only when the manager holds
\* none: either it is the first of the session or the one before has ended, its
\* listeners have been sent the conclusion and none of its timers is pending;
\* (c) a startNewGame while no game is running, with a whole bet of at least 1
\* that the user can pay, succeeds; (d) the manager holds a game exactly from
\* the startNewGame that made it until it has ended.
OneGamePerSession ==
    [][ /\ (last'.op = "startNewGame" /\ game # "null") =>
               /\ last'.result = "There's already a game ongoing!"
               /\ UNCHANGED <<mgrVars, engineVars, events, gamesCreated>>
        /\ gamesCreated' # gamesCreated =>
               /\ last'.op = "startNewGame"
               /\ game = "null"
               /\ timers = {}
               /\ \/ gamesCreated = 0
                  \/ /\ gameState = "ENDED"
                     /\ events # <<>>
                     /\ events[Len(events)].type = "onGameEnded"
               /\ gamesCreated' = gamesCreated + 1
        /\ \A user \in UserIds, bet \in 1..MaxBet :
               (/\ game = "null"
                /\ score[user] >= bet
                /\ ChatGameManager_startNewGame(user, bet)) =>
                   /\ last'.result = "ok"
                   /\ game' # "null"
                   /\ gameState' = "AWAITING_PLAYERS"
                   /\ gamesCreated' = gamesCreated + 1
        /\ (game' # "null") <=> (gamesCreated' > 0 /\ gameState' # "ENDED") ]_vars

\* C3, its case: the second game of the session is running, made after the first
\* had ended, and a startNewGame has just been turned down because of it.
SecondGameSeen ==
    /\ gamesCreated = 2
    /\ game # "null"
    /\ last.op = "startNewGame"
    /\ last.result = "There's already a game ongoing!"

\* the step is the call op of the engine by the user whose seat holds the turn
CallOfTurnHolder(op) ==
    /\ last'.op = op
    /\ last'.result # "undefined"
    /\ gameState = "PLAYER_TURNS"
    /\ playerTurnIndex \in 0..(Len(myPlayers) - 1)
    /\ myPlayers[playerTurnIndex + 1].identifier = last'.identifier

\* the seat holding the turn has not hit: it holds the two cards it was dealt
HasNotHit == Len(myPlayers[playerTurnIndex + 1].mycards) = 2

\* the timeout the engine holds for the turn in progress
HeldTimeout == [id |-> playerTurnTimeoutId, cb |-> "onPlayerTurnTimeout"]

\* every seat but the one holding the turn, and the dealer, stay as they are
OtherSeatsUnchanged ==
    /\ Len(myPlayers') = Len(myPlayers)
    /\ \A i \in DOMAIN myPlayers : i # playerTurnIndex + 1 => myPlayers'[i] = myPlayers[i]
    /\ dealer' = dealer

\* the turn has moved on to the next seat that may draw, or to the dealer
TurnAdvanced ==
    /\ playerTurnIndex' > playerTurnIndex
    /\ playerTurnIndex' <= Len(myPlayers)
    /\ \A i \in (playerTurnIndex + 1)..(playerTurnIndex' - 1) :
           myPlayers'[i + 1].myHandState # "Normal"
    /\ playerTurnIndex' < Len(myPlayers) =>
           /\ myPlayers'[playerTurnIndex' + 1].myHandState = "Normal"
           /\ [id |-> playerTurnTimeoutId', cb |-> "onPlayerTurnTimeout"] \in timers'
    /\ playerTurnIndex' = Len(myPlayers) =>
           \E t \in timers' \ timers : t.cb = "executeDealerTurn"

\* C4: a surrender by the user whose seat holds the turn succeeds exactly when
\* the seat has not hit: the seat is then Surrendered and otherwise as before,
\* the timeout held is cancelled and the turn moves on.  After a hit it returns
\* the error text and the engine (hand states, turn index, pending timers, shoe)
\* and the ledger are left as they were.  No other surrender is accepted.
SurrenderFirstActionOnly ==
    [][ /\ CallOfTurnHolder("surrender") =>
               IF HasNotHit
               THEN /\ last'.result = "ok"
                    /\ myPlayers'[playerTurnIndex + 1] =
                           [myPlayers[playerTurnIndex + 1] EXCEPT !.myHandState = "Surrendered"]
                    /\ OtherSeatsUnchanged
                    /\ HeldTimeout \in timers
                    /\ HeldTimeout \notin timers'
                    /\ TurnAdvanced
                    /\ last'.nextPlayer = currentPlayerRef(myPlayers', playerTurnIndex')
                    /\ UNCHANGED <<gameState, deck, mgrVars, events>>
               ELSE /\ last'.result = "Surrendering is no longer allowed!"
                    /\ UNCHANGED <<engineVars, mgrVars, events>>
        /\ (last'.op = "surrender" /\ last'.result = "ok") =>
               CallOfTurnHolder("surrender") ]_vars

\* C4, its case: a seat that has hit has just been refused a surrender, in a
\* round in which another seat did surrender.
SurrenderRefusedSeen ==
    /\ last.op = "surrender"
    /\ last.result = "Surrendering is no longer allowed!"
    /\ \E i \in DOMAIN myPlayers : myPlayers[i].myHandState = "Surrendered"

\* C5: an accepted hit is by the user whose seat holds the turn; the card it
\* returns leaves the shoe, which loses no other card, and is added to the end of
\* the seat's hand; no other seat changes.  The timeout held is cancelled.  If the
\* seat is Busted the turn moves on; otherwise the turn index stays and a
\* timeout that was not pending before is pending and held.  The result names
\* the card, the seat that acted and the player now holding the turn.
HitOneCard ==
    [][ (last'.op = "hit" /\ last'.result = "ok") =>
            /\ CallOfTurnHolder("hit")
            /\ deck[last'.card] > 0
            /\ deck' = [deck EXCEPT ![last'.card] = @ - 1]
            /\ myPlayers'[playerTurnIndex + 1].mycards =
                   Append(myPlayers[playerTurnIndex + 1].mycards, last'.card)
            /\ myPlayers'[playerTurnIndex + 1].bet = myPlayers[playerTurnIndex + 1].bet
            /\ OtherSeatsUnchanged
            /\ HeldTimeout \in timers
            /\ HeldTimeout \notin timers'
            /\ IF myPlayers'[playerTurnIndex + 1].myHandState = "Busted"
               THEN TurnAdvanced
               ELSE /\ playerTurnIndex' = playerTurnIndex
                    /\ playerTurnTimeoutId' # playerTurnTimeoutId
                    /\ timers' = (timers \ {HeldTimeout}) \cup
                           {[id |-> playerTurnTimeoutId', cb |-> "onPlayerTurnTimeout"]}
            /\ last'.currentPlayer = playerTurnIndex
            /\ last'.nextPlayer = currentPlayerRef(myPlayers', playerTurnIndex')
            /\ UNCHANGED <<gameState, mgrVars, events>> ]_vars

\* C5, its case: a hit has just left the seat in the game and with the turn, in
\* a round in which an earlier seat went bust.
HitKeepsTurnSeen ==
    /\ last.op = "hit"
    /\ last.result = "ok"
    /\ last.nextPlayer = last.currentPlayer
    /\ playerTurnIndex = last.currentPlayer
    /\ \E i \in DOMAIN myPlayers : myPlayers[i].myHandState = "Busted"

\* C6: a doubleDown by the user whose seat holds the turn is accepted exactly
\* when the seat has not hit and the user's balance is at least the seat's bet.
\* Then the bet of the seat is doubled, the card returned leaves the shoe and is
\* added to the seat's hand, no other seat changes, the timeout held is
\* cancelled and the turn moves on, whatever the hand state.  Otherwise the
\* error text is returned and engine and ledger are left as they were.  No other
\* doubleDown is accepted.  Within a game the turn index never goes back and an
\* action is accepted only for the seat at the turn index, so the seat does not
\* act again.
DoubleDownRule ==
    [][ /\ CallOfTurnHolder("doubleDown") =>
               IF HasNotHit /\ score[last'.identifier] >= myPlayers[playerTurnIndex + 1].bet
               THEN /\ last'.result = "ok"
                    /\ myPlayers'[playerTurnIndex + 1].bet =
                           2 * myPlayers[playerTurnIndex + 1].bet
                    /\ deck[last'.card] > 0
                    /\ deck' = [deck EXCEPT ![last'.card] = @ - 1]
                    /\ myPlayers'[playerTurnIndex + 1].mycards =
                           Append(myPlayers[playerTurnIndex + 1].mycards, last'.card)
                    /\ OtherSeatsUnchanged
                    /\ HeldTimeout \in timers
                    /\ HeldTimeout \notin timers'
                    /\ TurnAdvanced
                    /\ last'.currentPlayer = playerTurnIndex
                    /\ last'.nextPlayer = currentPlayerRef(myPlayers', playerTurnIndex')
                    /\ UNCHANGED <<gameState, events>>
               ELSE /\ last'.result =
                           IF ~HasNotHit THEN "Doubling down is no longer allowed!"
                           ELSE "You don't have enough points to double down!"
                    /\ UNCHANGED <<engineVars, mgrVars, events>>
        /\ (last'.op = "doubleDown" /\ last'.result = "ok") =>
               CallOfTurnHolder("doubleDown")
        /\ gamesCreated' = gamesCreated => playerTurnIndex' >= playerTurnIndex
        /\ (last'.op \in PlayerOps /\ last'.result = "ok") =>
               /\ playerTurnIndex \in 0..(Len(myPlayers) - 1)
               /\ myPlayers[playerTurnIndex + 1].identifier = last'.identifier ]_vars

\* C6, its case: a doubleDown has just been accepted and left the seat in the
\* game (not Busted) with the turn gone to another player.
DoubleDownSeen ==
    /\ last.op = "doubleDown"
    /\ last.result = "ok"
    /\ myPlayers[last.currentPlayer + 1].myHandState = "Normal"
    /\ playerTurnIndex > last.currentPlayer

\* C7: when a turn timeout fires, stand would be accepted for the identifier of
\* the current player, and turn index, pending timers and timeout id held are
\* afterwards what stand leaves; like stand it changes no seat, not the dealer,
\* the shoe, the game state or the ledger.  The listeners are sent one event,
\* which names the seat that held the turn and the player that holds it now.
TimeoutIsStand ==
    [][ last'.op = "onPlayerTurnTimeout" =>
            /\ isTurnOf(currentPlayer.identifier)
            /\ playerTurnIndex' = standAccepted.playerTurnIndex
            /\ timers' = standAccepted.timers
            /\ playerTurnTimeoutId' = standAccepted.playerTurnTimeoutId
            /\ UNCHANGED <<gameState, myPlayers, dealer, deck, mgrVars>>
            /\ events' = Append(events,
                   [type |-> "onPlayerTurnTimedOut",
                    timedOutPlayer |-> currentPlayerRef(myPlayers, playerTurnIndex),
                    nextPlayer |-> standAccepted.currentPlayer])
            /\ currentPlayerRef(myPlayers, playerTurnIndex) = playerTurnIndex
            /\ standAccepted.currentPlayer = currentPlayerRef(myPlayers', playerTurnIndex') ]_vars

\* C7, its case: a timeout has just fired and passed the turn to another seat,
\* for which a timeout is pending.
TimeoutSeen ==
    /\ last.op = "onPlayerTurnTimeout"
    /\ gameState = "PLAYER_TURNS"
    /\ playerTurnIndex < Len(myPlayers)
    /\ TurnTimeouts(timers) # {}
    /\ events[Len(events)].type = "onPlayerTurnTimedOut"
    /\ events[Len(events)].nextPlayer = playerTurnIndex

\* the place of an event in the order of a round
EventRank(type) ==
    CASE type = "onCardsDealt" -> 1
      [] type = "onPlayerTurnTimedOut" -> 2
      [] type = "onDealerDrewCard" -> 3
      [] type = "onGameEnded" -> 4

\* cards dealt comes first and once, game ended last and once, and no timed-out
\* event follows a dealer-drew event
InRoundOrder(ev) ==
    /\ ev # <<>> => ev[1].type = "onCardsDealt"
    /\ \A i, j \in DOMAIN ev :
           i < j => /\ EventRank(ev[i].type) <= EventRank(ev[j].type)
                    /\ ev[j].type # "onCardsDealt"
                    /\ ev[i].type # "onGameEnded"

\* C8: the events sent to the listeners in a round are only ever added to; they
\* are one cards-dealt event, then timed-out events, then dealer-drew events,
\* then one game-ended event; cards dealt has been sent once the players' turns
\* begin, and the game has ended exactly when game ended was the last event sent.
EventOrder ==
    [][ /\ \/ events' = events
           \/ gamesCreated' # gamesCreated /\ events' = <<>>
           \/ /\ Len(events') = Len(events) + 1
              /\ SubSeq(events', 1, Len(events)) = events
        /\ InRoundOrder(events')
        /\ gameState' \in {"PLAYER_TURNS", "DEALER_TURN", "ENDED"} => events' # <<>>
        /\ gameState' \in {"INITIALIZING", "AWAITING_PLAYERS"} => events' = <<>>
        /\ gameState' = "ENDED" <=>
               (events' # <<>> /\ events'[Len(events')].type = "onGameEnded") ]_vars

\* C8, its case: a round has ended in which a seat timed out and the dealer drew
\* more than one card.
FullRoundSeen ==
    /\ gameState = "ENDED"
    /\ TimedOutSeats # {}
    /\ Cardinality({i \in DOMAIN events : events[i].type = "onDealerDrewCard"}) >= 2
    /\ events[Len(events)].type = "onGameEnded"

\* the step is a call of the engine's stand, hit, surrender, doubleDown or
\* joinGame (a call of the manager while it holds no game does not reach one)
EngineCall ==
    \/ last'.op \in PlayerOps /\ last'.result # "undefined"
    \/ last'.op = "joinGame" /\ last'.result # "null"

\* C9: (a) a game-ended event is sent exactly in the step that sets the game
\* state to ENDED; that step is the dealer's turn (executeDealerTurn, which sets
\* DEALER_TURN when it starts, or its resumption after a delay), the event
\* carries the conclusion of the hands as they then are, and no second one is
\* ever sent; (b) every call of stand, hit, surrender, doubleDown or joinGame on
\* an engine in state ENDED is turned down and changes nothing.
EndedOnce ==
    [][ /\ (gameState' = "ENDED" /\ gameState # "ENDED") <=>
               (/\ Len(events') = Len(events) + 1
                /\ events'[Len(events')].type = "onGameEnded")
        /\ (gameState' = "ENDED" /\ gameState # "ENDED") =>
               /\ last'.op \in {"executeDealerTurn", "asyncSleep"}
               /\ gameState \in {"PLAYER_TURNS", "DEALER_TURN"}
               /\ last'.op = "asyncSleep" => gameState = "DEALER_TURN"
               /\ events'[Len(events')].conclusion = getGameConclusion(myPlayers', dealer')
               /\ UNCHANGED myPlayers
        /\ Cardinality({i \in DOMAIN events' : events'[i].type = "onGameEnded"}) <= 1
        /\ (gameState = "ENDED" /\ EngineCall) =>
               /\ last'.result = IF last'.op = "joinGame"
                                 THEN "It's no longer possible to join the game!"
                                 ELSE "null"
               /\ UNCHANGED <<engineVars, mgrVars, events>> ]_vars

\* C9, its case: a joinGame on an engine that has ended has just been turned
\* down.
JoinAfterEndSeen ==
    /\ gameState = "ENDED"
    /\ last.op = "joinGame"
    /\ last.result = "It's no longer possible to join the game!"
    /\ events[Len(events)].type = "onGameEnded"

\* the six lists of a conclusion
Buckets(conclusion) ==
    <<conclusion.bustedPlayers, conclusion.lowerScoreThanDealerPlayers,
      conclusion.sameScoreAsDealerPlayers, conclusion.higherScoreThanDealerPlayers,
      conclusion.playersWithBlackjack, conclusion.surrenderedPlayers>>

\* how often a player is listed in the lists of a conclusion
TimesListed(conclusion, ref) ==
    Cardinality({bk \in (1..6) \X (1..Len(myPlayers)) :
                    /\ bk[2] <= Len(Buckets(conclusion)[bk[1]])
                    /\ Buckets(conclusion)[bk[1]][bk[2]] = ref})

\* C10: in a conclusion sent to the listeners every seat of the game is listed
\* exactly once over the six lists (so the lists are pairwise disjoint and
\* together hold every seat), and the dealer is listed in none.
BucketsPartition ==
    \A i \in DOMAIN events :
        events[i].type = "onGameEnded" =>
            /\ \A seat \in 0..(Len(myPlayers) - 1) :
                   TimesListed(events[i].conclusion, seat) = 1
            /\ TimesListed(events[i].conclusion, DealerRef) = 0
            /\ \A b \in 1..6 :
                   Len(Buckets(events[i].conclusion)[b]) <= Len(myPlayers)

\* C10, its case: a round of two seats has ended, one seat equal to the dealer
\* and one surrendered.
TwoBucketsSeen ==
    /\ gameState = "ENDED"
    /\ Len(myPlayers) = 2
    /\ events[Len(events)].type = "onGameEnded"
    /\ events[Len(events)].conclusion.sameScoreAsDealerPlayers # <<>>
    /\ events[Len(events)].conclusion.surrenderedPlayers # <<>>

RECURSIVE AchievableSums(_)
\* the sums a hand can count for: one of its values chosen for every card
AchievableSums(cards) ==
    IF Len(cards) = 0 THEN {0}
    ELSE {s + RANK_VALUES(Head(cards))[k] :
            s \in AchievableSums(Tail(cards)), k \in DOMAIN RANK_VALUES(Head(cards))}

\* the achievable sums of a hand that are not over 21
NonBustSums(cards) == {s \in AchievableSums(cards) : s <= 21}

\* the best total of a hand: its highest achievable sum not over 21, -1 if none
BestTotal(cards) ==
    IF NonBustSums(cards) = {} THEN -1
    ELSE CHOOSE s \in NonBustSums(cards) : \A other \in NonBustSums(cards) : other <= s

\* the player is an element of the list
Listed(list, ref) == \E k \in DOMAIN list : list[k] = ref

\* the last event of the round is its conclusion
ConclusionSent ==
    /\ gameState = "ENDED"
    /\ Len(events) > 0
    /\ events[Len(events)].type = "onGameEnded"

LastConclusion == events[Len(events)].conclusion

\* C11: in the conclusion of a round, a seat whose hand state is Normal is
\* listed as higher exactly when its best total is strictly greater than the
\* dealer's or the dealer is busted, as equal exactly when the best totals are
\* equal, and as lower exactly when its best total is strictly lower and the
\* dealer is not busted; a seat of another hand state is in none of the three.
\* With a busted dealer the lower and equal lists are empty.  A busted seat is
\* listed as busted whether or not the dealer is busted.
ClassifiedAgainstDealer ==
    ConclusionSent =>
        LET c == LastConclusion
            dealerBust == BestTotal(dealer.mycards) = -1
        IN /\ c.dealerBusted <=> dealerBust
           /\ dealerBust =>
                  c.lowerScoreThanDealerPlayers = <<>> /\ c.sameScoreAsDealerPlayers = <<>>
           /\ \A i \in DOMAIN myPlayers :
                  LET seat == myPlayers[i]
                      normal == seat.myHandState = "Normal"
                      mine == BestTotal(seat.mycards)
                      theirs == BestTotal(dealer.mycards)
                  IN /\ Listed(c.higherScoreThanDealerPlayers, i - 1) <=>
                            (normal /\ (mine > theirs \/ dealerBust))
                     /\ Listed(c.sameScoreAsDealerPlayers, i - 1) <=>
                            (normal /\ mine = theirs)
                     /\ Listed(c.lowerScoreThanDealerPlayers, i - 1) <=>
                            (normal /\ mine < theirs /\ ~dealerBust)
                     /\ BestTotal(seat.mycards) = -1 => Listed(c.bustedPlayers, i - 1)

\* C11, its case: a round has ended with the dealer busted, one seat busted
\* too and another seat, in hand state Normal, listed as higher.
DealerBustedSeen ==
    /\ ConclusionSent
    /\ BestTotal(dealer.mycards) = -1
    /\ \E i \in DOMAIN myPlayers :
           /\ myPlayers[i].myHandState = "Busted"
           /\ Listed(LastConclusion.bustedPlayers, i - 1)
    /\ \E i \in DOMAIN myPlayers :
           /\ myPlayers[i].myHandState = "Normal"
           /\ Listed(LastConclusion.higherScoreThanDealerPlayers, i - 1)

RECURSIVE SumSeq(_)
SumSeq(s) == IF Len(s) = 0 THEN 0 ELSE Head(s) + SumSeq(Tail(s))

\* a natural blackjack: two cards with a best total of 21
NaturalBlackjack(cards) == Len(cards) = 2 /\ BestTotal(cards) = 21

\* what the user's ledger holds after the first round of a session when seat i
\* of the user nets Net(i): the starting balance and the net of each seat
LedgerAfterRound(user, Net(_)) ==
    StartScore + SumSeq([i \in DOMAIN myPlayers |->
                            IF myPlayers[i].identifier = user THEN Net(i) ELSE 0])

\* C12: in the conclusion of a round a seat with a natural blackjack is listed
\* as blackjack and paid 2.5 times its bet (rounded down), unless the dealer
\* has a natural blackjack too: then the seat is listed as equal to the dealer
\* and paid its bet back.  The payment is read off the ledger of a user whose
\* seats all hold a natural blackjack.
BlackjackPushOnDealerBlackjack ==
    ConclusionSent =>
        LET c == LastConclusion
            dealerBlackjack == NaturalBlackjack(dealer.mycards)
            Paid(i) == IF dealerBlackjack THEN myPlayers[i].bet
                       ELSE (5 * myPlayers[i].bet) \div 2
            Net(i) == Paid(i) - myPlayers[i].bet
        IN /\ \A i \in DOMAIN myPlayers :
                  NaturalBlackjack(myPlayers[i].mycards) =>
                      /\ Listed(c.playersWithBlackjack, i - 1) <=> ~dealerBlackjack
                      /\ Listed(c.sameScoreAsDealerPlayers, i - 1) <=> dealerBlackjack
           /\ \A user \in UserIds :
                  (\A i \in DOMAIN myPlayers :
                       myPlayers[i].identifier = user =>
                           NaturalBlackjack(myPlayers[i].mycards))
                  => score[user] = LedgerAfterRound(user, Net)

\* C12, its case: a round has ended with a natural blackjack on a seat and on
\* the dealer.
BothBlackjackSeen ==
    /\ ConclusionSent
    /\ NaturalBlackjack(dealer.mycards)
    /\ \E i \in DOMAIN myPlayers : NaturalBlackjack(myPlayers[i].mycards)

\* what a seat is due by the list of the conclusion it is in, for a bet
PayoutByBucket(c, ref, bet) ==
    IF Listed(c.playersWithBlackjack, ref) THEN (5 * bet) \div 2
    ELSE IF Listed(c.higherScoreThanDealerPlayers, ref) THEN 2 * bet
    ELSE IF Listed(c.sameScoreAsDealerPlayers, ref) THEN bet
    ELSE IF Listed(c.surrenderedPlayers, ref) THEN bet \div 2
    ELSE 0

\* C13: when the first round of a session has ended, the ledger of every user
\* holds the starting balance changed, for each seat of the user, by what the
\* seat is due by its list of the conclusion (blackjack floor(2.5 bet), higher
\* 2 bet, equal bet, surrendered floor(0.5 bet), busted and lower nothing) less
\* the seat's bet, the bet being the one the seat ends with (twice the bet it
\* joined with once it has doubled down).
PayoutByBucketOnly ==
    ConclusionSent =>
        LET Net(i) == PayoutByBucket(LastConclusion, i - 1, myPlayers[i].bet)
                          - myPlayers[i].bet
        IN \A user \in UserIds : score[user] = LedgerAfterRound(user, Net)

\* C13, its case: a round has ended in which the only seat of a user holds
\* three cards and a bet of 2, is listed as higher and the user's ledger is up
\* by 2, while another seat has surrendered.
PaidOutSeen ==
    /\ ConclusionSent
    /\ \E i \in DOMAIN myPlayers :
           /\ myPlayers[i].bet = 2
           /\ Len(myPlayers[i].mycards) = 3
           /\ Listed(LastConclusion.higherScoreThanDealerPlayers, i - 1)
           /\ \A j \in DOMAIN myPlayers :
                  myPlayers[j].identifier = myPlayers[i].identifier => j = i
           /\ score[myPlayers[i].identifier] = StartScore + 2
    /\ LastConclusion.surrenderedPlayers # <<>>

\* the player that was rewarded on its own, and the step's multiplier and reward
Rewarded == last.op = "rewardPlayers"
RewardedPlayer == myPlayers[1]

\* C14: rewardPlayer(multiplier) of a seat with a bet returns the whole number
\* r with r <= bet * multiplier < r + 1, and the ledger of the seat's user goes
\* up by r: bet 3 and multiplier 2.5 give 7, bet 1 and multiplier 0.5 give 0.
\* For the dealer it returns 0 and no ledger changes.
RewardIsFloor ==
    Rewarded =>
        LET bet == RewardedPlayer.bet
            r == last.reward
            m2 == last.multiplierX2
        IN IF RewardedPlayer.identifier = DEALER_IDENTIFIER
           THEN r = 0 /\ \A u \in UserIds : score[u] = StartScore
           ELSE /\ 2 * r <= bet * m2
                /\ bet * m2 < 2 * r + 2
                /\ score[RewardedPlayer.identifier] = StartScore + r
                /\ \A u \in UserIds \ {RewardedPlayer.identifier} : score[u] = StartScore
                /\ (bet = 3 /\ m2 = 5) => r = 7
                /\ (bet = 1 /\ m2 = 1) => r = 0

\* C14, its case: a seat with bet 3 was rewarded with the multiplier 2.5 and
\* its user's ledger went up by 7.
RewardRoundedDownSeen ==
    /\ Rewarded
    /\ RewardedPlayer.bet = 3
    /\ last.multiplierX2 = 5
    /\ last.reward = 7
    /\ score[RewardedPlayer.identifier] = StartScore + 7

\* the seat that is given cards on its own, once it was given one
CardsGiven == last.op = "giveCards"
Hand == myPlayers[1]

\* the elements of a sequence, and a sequence going strictly down
Elements(s) == {s[k] : k \in DOMAIN s}
StrictlyDescending(s) == \A k \in 1..(Len(s) - 1) : s[k] > s[k + 1]

\* C15: for every hand that was given cards, the possible hand values are the
\* sums of one value chosen per card, each once; the non-busted hand values are
\* exactly those of them that are not over 21, sorted strictly descending (so
\* without duplicates); the best total is the first of them, or -1 when there
\* is none.  Two Aces and a Nine give <<21, 11>>.
EvaluatorExact ==
    CardsGiven =>
        LET values == calculatePossibleHandValues(Hand.mycards)
            nonBusted == Hand.myNonBustedHandValues
        IN /\ Elements(values) = AchievableSums(Hand.mycards)
           /\ Len(values) = Cardinality(AchievableSums(Hand.mycards))
           /\ Elements(nonBusted) = NonBustSums(Hand.mycards)
           /\ StrictlyDescending(nonBusted)
           /\ highestNonBustedHandValue(Hand) = BestTotal(Hand.mycards)
           /\ highestNonBustedHandValue(Hand) =
                  IF Len(nonBusted) = 0 THEN -1 ELSE nonBusted[1]
           /\ Hand.mycards \in {<<"Ace", "Ace", "Nine">>, <<"Ace", "Nine", "Ace">>,
                                <<"Nine", "Ace", "Ace">>}
                  => nonBusted = <<21, 11>>

\* C15, its case: the hand Ace, Ace, Nine was evaluated.
TwoAcesAndNineSeen ==
    /\ CardsGiven
    /\ Hand.mycards = <<"Ace", "Ace", "Nine">>
    /\ Hand.myNonBustedHandValues = <<21, 11>>

BustedIffNoSum ==
    CardsGiven =>
        /\ Hand.myHandState = "Busted" <=> NonBustSums(Hand.mycards) = {}
        /\ Hand.myHandState = "Busted" =>
               /\ Hand.myNonBustedHandValues = <<>>
               /\ highestNonBustedHandValue(Hand) = -1
        /\ (\E s \in AchievableSums(Hand.mycards) : s <= 21) =>
               Hand.myHandState # "Busted"

\* C17, its case: the hand Ten, Ten, Five was evaluated: its only sum is 25.
BustedHandSeen ==
    /\ CardsGiven
    /\ Hand.mycards = <<"Ten", "Ten", "Five">>
    /\ Hand.myHandState = "Busted"

\* BlackjackGame.MAX_PLAYERS of the earlier version of the engine
MAX_PLAYERS == 3

\* a join of the manager or the engine has just been accepted
JoinAccepted == last.op = "joinGame" /\ last.result = "ok"

\* C18: a round never has more than 3 seats: a join that comes when 3 seats
\* are taken adds no seat (it is turned down and no bet is confiscated).
AtMostMaxPlayers == Len(myPlayers) <= MAX_PLAYERS

\* C18, its case: a fourth user has joined a game of three seats of three
\* other users and the bet was confiscated.
FourthSeatSeen ==
    /\ JoinAccepted
    /\ Len(myPlayers) = 4
    /\ \A i, j \in DOMAIN myPlayers :
           myPlayers[i].identifier = myPlayers[j].identifier => i = j
    /\ score[myPlayers[4].identifier] = StartScore - myPlayers[4].bet

\* C19: no two seats of a round have the same identifier: a join of a user
\* who already takes part is turned down and adds no seat.
NoSeatTwice ==
    \A i, j \in DOMAIN myPlayers :
        myPlayers[i].identifier = myPlayers[j].identifier => i = j

\* C19, its case: a user who holds a seat has joined again and holds two seats,
\* with both bets confiscated.
SecondSeatSeen ==
    /\ JoinAccepted
    /\ Len(myPlayers) = 2
    /\ myPlayers[1].identifier = myPlayers[2].identifier
    /\ score[myPlayers[1].identifier] = StartScore - myPlayers[1].bet - myPlayers[2].bet

\* the error texts a call of joinGame can be answered with
JoinErrors ==
    {"It's no longer possible to join the game!",
     "You don't have enough points to make that bet!",
     "Your bet must be a whole, positive number!"}

\* the join window: the engine is in state INITIALIZING or AWAITING_PLAYERS
InJoinWindow == gameState \in {"INITIALIZING", "AWAITING_PLAYERS"}

\* the seats are the same ones, in the same order
SameSeats ==
    /\ Len(myPlayers') = Len(myPlayers)
    /\ \A i \in DOMAIN myPlayers : myPlayers'[i].identifier = myPlayers[i].identifier

\* C20: a call of joinGame is accepted only in the join window, and then adds
\* one seat.  Outside of it (the join window timer has fired) every call of
\* joinGame that reaches the engine is answered with an error text, and no call
\* of joinGame changes the seats, a ledger or the dealer balance; no step at
\* all changes the seat list of the round any more.
JoinWindowOnly ==
    [][ /\ (last'.op = "joinGame" /\ last'.result = "ok") =>
               /\ InJoinWindow
               /\ Len(myPlayers') = Len(myPlayers) + 1
        /\ (last'.op = "joinGame" /\ ~InJoinWindow) =>
               /\ last'.result # "null" => last'.result \in JoinErrors
               /\ last'.result = "null" => game = "null"
               /\ UNCHANGED <<myPlayers, score, myDealerBalance>>
        /\ (~InJoinWindow /\ gamesCreated' = gamesCreated) => SameSeats ]_vars

\* C20, its case: while the players take their turns a user without a seat
\* has called joinGame with a bet the ledger covers; the call was turned down
\* by the engine and the ledger still holds the starting balance.
JoinAfterDealSeen ==
    /\ gameState = "PLAYER_TURNS"
    /\ game = "game"
    /\ last.op = "joinGame"
    /\ last.result = "It's no longer possible to join the game!"
    /\ \A i \in DOMAIN myPlayers : myPlayers[i].identifier # last.identifier
    /\ score[last.identifier] = StartScore

\* the step is a call of startNewGame or joinGame
StartOrJoinCall == last'.op \in {"startNewGame", "joinGame"}

\* C21: a call of startNewGame or joinGame either is turned down and changes
\* nothing (no ledger, not the dealer balance, no seat, not the game the
\* manager holds, nothing of the engine), or is accepted, and then none of the
\* grounds to turn it down applied: the bet of the new seat is at least 1 and
\* covered by the user's balance, a startNewGame found no game running, a
\* joinGame found a running game in its join window.
RejectedMutatesNothing ==
    [][ StartOrJoinCall =>
            \/ /\ last'.result # "ok"
               /\ UNCHANGED <<mgrVars, engineVars, events, gamesCreated>>
            \/ /\ last'.result = "ok"
               /\ Len(myPlayers') >= 1
               /\ LET seat == myPlayers'[Len(myPlayers')]
                  IN /\ seat.identifier = last'.identifier
                     /\ seat.bet >= 1
                     /\ score[seat.identifier] >= seat.bet
               /\ last'.op = "startNewGame" => game = "null"
               /\ last'.op = "joinGame" => (game # "null" /\ InJoinWindow) ]_vars

\* C21, its case: in the join window a user whose balance is below the bet
\* has called joinGame and was turned down; the seats are those of users whose
\* bets were taken, the dealer balance is the sum of their bets.
JoinOverBalanceSeen ==
    /\ gameState = "AWAITING_PLAYERS"
    /\ last.op = "joinGame"
    /\ last.result = "You don't have enough points to make that bet!"
    /\ score[last.identifier] = StartScore - 1
    /\ Len(myPlayers) = 1
    /\ myDealerBalance = 1

\* no seat is in hand state Normal
NoNormalSeat == \A i \in DOMAIN myPlayers : myPlayers[i].myHandState # "Normal"

\* the dealer-drew-card events of the round
DealerDrawEvents == {i \in DOMAIN events : events[i].type = "onDealerDrewCard"}

\* C22: when the dealer's turn starts (executeDealerTurn runs) and no seat is
\* in hand state Normal, the dealer draws no card: the step ends the round, the
\* dealer keeps exactly the one card it was dealt, the shoe is untouched, no
\* dealer-drew-card event was or is sent in the round, and the conclusion sent
\* reports the dealer as not busted.
NoDrawWithoutNormalSeat ==
    [][ (last'.op = "executeDealerTurn" /\ NoNormalSeat) =>
            /\ gameState' = "ENDED"
            /\ UNCHANGED <<dealer, deck, myPlayers>>
            /\ Len(dealer'.mycards) = 1
            /\ Len(events') = Len(events) + 1
            /\ events'[Len(events')].type = "onGameEnded"
            /\ ~events'[Len(events')].conclusion.dealerBusted
            /\ \A i \in DOMAIN events' : events'[i].type # "onDealerDrewCard" ]_vars

\* C22, its case: a round of a seat with a blackjack and a busted seat has
\* been ended by the start of the dealer's turn, the dealer holding one card.
DealerDidNotDrawSeen ==
    /\ ConclusionSent
    /\ last.op = "executeDealerTurn"
    /\ Len(dealer.mycards) = 1
    /\ \E i \in DOMAIN myPlayers : myPlayers[i].myHandState = "Blackjack"
    /\ \E i \in DOMAIN myPlayers : myPlayers[i].myHandState = "Busted"

\* a hand has a total of 17 to 21 among its sums, or none that is not over 21
HasDealerTotal(cards) == \E total \in AchievableSums(cards) : total >= 17 /\ total <= 21
IsBust(cards) == \A total \in AchievableSums(cards) : total > 21

\* the step gives the dealer a card after the deal
DealerDraws == dealer'.mycards # dealer.mycards /\ last'.op \notin {"dealCards", "startNewGame"}

\* C23: the dealer draws only in its own turn, one card at a time, each draw
\* reported by a dealer-drew-card event, and never from a hand that is busted
\* or has a total of 17 to 21 among its sums (a soft 17 counts); a round in
\* which a seat is in hand state Normal ends only once the dealer is busted or
\* has such a total.
DealerDrawsToSeventeen ==
    [][ /\ DealerDraws =>
               /\ last'.op \in {"executeDealerTurn", "asyncSleep"}
               /\ \E card \in Ranks :
                      /\ dealer'.mycards = Append(dealer.mycards, card)
                      /\ events' = Append(events, [type |-> "onDealerDrewCard",
                                                   card |-> card])
               /\ ~HasDealerTotal(dealer.mycards)
               /\ ~IsBust(dealer.mycards)
               /\ ~NoNormalSeat
        /\ (gameState' = "ENDED" /\ gameState # "ENDED" /\ ~NoNormalSeat) =>
               (IsBust(dealer'.mycards) \/ HasDealerTotal(dealer'.mycards)) ]_vars

\* C23, its case: the round of a seat in hand state Normal has ended with the
\* dealer standing on a soft 17, a Six and an Ace.
SoftSeventeenSeen ==
    /\ ConclusionSent
    /\ ~NoNormalSeat
    /\ dealer.mycards = <<"Six", "Ace">>
    /\ DealerDrawEvents # {}

\* the pending join window timers, and the cards-dealt events of the round
JoinWindowTimers(ts) == {t \in ts : t.cb = "dealCards"}
CardsDealtEvents(evs) == {i \in DOMAIN evs : evs[i].type = "onCardsDealt"}

\* C24: a call of initializeGame on an engine in state INITIALIZING sets the
\* state AWAITING_PLAYERS and starts the join window timer; on an engine in any
\* other state it returns the error text and changes nothing, so that never
\* more than one join window timer is pending.  dealCards runs only in state
\* AWAITING_PLAYERS, with no cards dealt before, and the cards are dealt at most
\* once per engine.
InitializeOnce ==
    [][ /\ last'.op = "initializeGame" =>
               IF gameState = "INITIALIZING"
               THEN /\ last'.result = "ok"
                    /\ gameState' = "AWAITING_PLAYERS"
                    /\ Cardinality(JoinWindowTimers(timers')) = 1
               ELSE /\ last'.result =
                           "Game has already been initialized - this is a programming error!"
                    /\ UNCHANGED <<engineVars, mgrVars, events>>
        /\ Cardinality(JoinWindowTimers(timers')) <= 1
        /\ last'.op = "dealCards" =>
               /\ gameState = "AWAITING_PLAYERS"
               /\ CardsDealtEvents(events) = {}
               /\ JoinWindowTimers(timers') = {}
        /\ Cardinality(CardsDealtEvents(events')) <= 1 ]_vars

\* C24, its case: initializeGame was called again in the join window and was
\* turned down; the one join window timer is pending.
SecondInitializeSeen ==
    /\ last.op = "initializeGame"
    /\ last.result = "Game has already been initialized - this is a programming error!"
    /\ gameState = "AWAITING_PLAYERS"
    /\ Cardinality(timers) = 1
    /\ Cardinality(JoinWindowTimers(timers)) = 1

\* the hands of the round, the number of cards they hold, and the total of a
\* hand with every card counted at its lowest value
Hands == Append(myPlayers, dealer)
CardsHeld == SumSeq([i \in DOMAIN Hands |-> Len(Hands[i].mycards)])
LowestTotal(cards) == SumSeq([i \in DOMAIN cards |-> RANK_VALUES(cards[i])[1]])

\* the dealer's loop draws when it runs next
DealerWillDraw ==
    /\ dealer.myHandState = "Normal"
    /\ ~dealer.myHasReachedDealerMinimum
    /\ \/ \E t \in timers : t.cb = "asyncSleep"
       \/ /\ \E t \in timers : t.cb = "executeDealerTurn"
          /\ thereAreNonBustedPlayersWithoutBlackjack(myPlayers)

LedgerChanges == SumSeq([u \in 1..NumUsers |-> score[u] - StartScore])

\* C26: the dealer balance and the changes made to the ledger add up to zero:
\* the dealer balance is what was confiscated as bets, the additional bet of a
\* double down included, less what was paid out.
DealerBalanceIsZeroSum == myDealerBalance + LedgerChanges = 0

\* C26, its case: a seat has doubled down, its additional bet is off the ledger
\* and the dealer balance has not moved.
DoubleDownStakeSeen ==
    /\ last.op = "doubleDown"
    /\ last.result = "ok"
    /\ myDealerBalance + LedgerChanges < 0

\* the users whose ledger a step debits, and those it credits
Debited == {u \in UserIds : score'[u] < score[u]}
Credited == {u \in UserIds : score'[u] > score[u]}

\* the step is an accepted startNewGame or joinGame of the manager
SeatTaken ==
    /\ last'.op \in {"startNewGame", "joinGame"}
    /\ last'.result = "ok"
    /\ game' = "game"

\* the step delivers the conclusion of the round
RoundEnds == gameState # "ENDED" /\ gameState' = "ENDED"

OneTimerPending ==
    [][ /\ Cardinality(timers') <= 1
        /\ \A t \in timers' : t.cb \in TimerCallbacks
        /\ last'.op \in PlayerOps /\ last'.result = "ok" =>
               /\ timers = {HeldTimeout}
               /\ \A t \in timers' : t.id # playerTurnTimeoutId
               /\ Cardinality(timers') = 1
               /\ \A t \in timers' :
                      t.cb = IF playerTurnIndex' >= Len(myPlayers')
                             THEN "executeDealerTurn" ELSE "onPlayerTurnTimeout"
               /\ TurnTimeouts(timers') \subseteq
                      {[id |-> playerTurnTimeoutId', cb |-> "onPlayerTurnTimeout"]} ]_vars

\* C28, its case: a hit was accepted and did not bust the seat; the timeout of
\* the turn was replaced, and the new one is the only timer pending.
TimeoutReplacedSeen ==
    /\ last.op = "hit"
    /\ last.result = "ok"
    /\ last.nextPlayer = last.currentPlayer
    /\ timers = {HeldTimeout}
    /\ playerTurnTimeoutId >= 2

\* the round's conclusion has been delivered to the listeners
GameEndedDelivered == \E i \in DOMAIN events : events[i].type = "onGameEnded"

\* C29: once the engine is in state ENDED no timer is pending, and from the
\* delivery of the conclusion on no step is the callback of a timer: neither the
\* join window, nor a turn timeout, nor the dealer's turn or its delay.
NoTimerAfterEnd ==
    [][ /\ gameState' = "ENDED" => timers' = {}
        /\ GameEndedDelivered' => gameState' = "ENDED"
        /\ gameState = "ENDED" \/ GameEndedDelivered =>
               /\ last'.op \notin TimerCallbacks
               /\ \A i \in DOMAIN events' :
                      i > Len(events) => events'[i].type \notin
                          {"onCardsDealt", "onPlayerTurnTimedOut", "onDealerDrewCard",
                           "onGameEnded"} ]_vars

\* C29, its case: the dealer drew, the delay after the draw has passed and the
\* round has ended with no timer left.
EndedWithoutTimerSeen ==
    /\ last.op = "asyncSleep"
    /\ gameState = "ENDED"
    /\ GameEndedDelivered
    /\ Len(dealer.mycards) >= 2
    /\ timers = {}

\* the step stays within the round in progress
SameRound == gamesCreated' = gamesCreated

\* C30: the turn index of a new round is -1 and stays -1 until the cards are
\* dealt; within a round it never goes down and never goes beyond the number of
\* seats; from the deal on, the dealer is the current player exactly when the
\* index is the number of seats.  A player call is accepted only for the seat
\* at the index and changes no other seat, the seats below the index are never
\* changed again, and when the index moves it moves past seats that may not
\* draw only, so seats hold the turn once, in the order in which they joined.
TurnIndexMonotone ==
    [][ /\ ~SameRound => playerTurnIndex' = -1
        /\ gameState' \in {"INITIALIZING", "AWAITING_PLAYERS"} <=> playerTurnIndex' = -1
        /\ playerTurnIndex' \in -1..Len(myPlayers')
        /\ playerTurnIndex' >= 0 =>
               (currentPlayerRef(myPlayers', playerTurnIndex') = DealerRef
                    <=> playerTurnIndex' = Len(myPlayers'))
        /\ SameRound =>
               /\ playerTurnIndex' >= playerTurnIndex
               /\ playerTurnIndex >= 0 => Len(myPlayers') = Len(myPlayers)
               /\ \A i \in 1..Len(myPlayers) :
                      i - 1 < playerTurnIndex => myPlayers'[i] = myPlayers[i]
               /\ \A i \in (playerTurnIndex + 1)..(playerTurnIndex' - 1) :
                      i >= 0 => ~mayDrawCard(myPlayers'[i + 1])
               /\ playerTurnIndex' > playerTurnIndex /\ playerTurnIndex >= 0 =>
                      \/ last'.op \in PlayerOps /\ last'.result = "ok"
                      \/ last'.op = "onPlayerTurnTimeout"
        /\ last'.op \in PlayerOps /\ last'.result = "ok" =>
               /\ playerTurnIndex \in 0..(Len(myPlayers) - 1)
               /\ myPlayers[playerTurnIndex + 1].identifier = last'.identifier
               /\ OtherSeatsUnchanged ]_vars

\* C30, its case: in a round of two seats the first seat has hit and passed the
\* turn on, the second seat has stood, and the dealer is the current player.
DealerAfterBothSeatsSeen ==
    /\ Len(myPlayers) = 2
    /\ gameState = "PLAYER_TURNS"
    /\ playerTurnIndex = 2
    /\ currentPlayerRef(myPlayers, playerTurnIndex) = DealerRef
    /\ Len(myPlayers[1].mycards) = 3
    /\ last.op = "stand"
    /\ last.result = "ok"
    /\ last.identifier = myPlayers[2].identifier

\* the hand was given cards in the step
GotCards(before, after) == Len(after.mycards) > Len(before.mycards)

\* C31: after the deal a hand is given a card only if its state was Normal
\* right before, and then one card; a seat is given it by its own accepted hit
\* or doubleDown while it holds the turn.  A hand whose state is Blackjack,
\* Busted or Surrendered keeps its cards.
OnlyNormalHandsDraw ==
    [][ SameRound /\ last'.op # "dealCards" =>
           /\ Len(myPlayers') >= Len(myPlayers)
           /\ \A i \in DOMAIN myPlayers :
                  /\ myPlayers[i].myHandState # "Normal" =>
                         myPlayers'[i].mycards = myPlayers[i].mycards
                  /\ GotCards(myPlayers[i], myPlayers'[i]) =>
                         /\ myPlayers[i].myHandState = "Normal"
                         /\ mayDrawCard(myPlayers[i])
                         /\ Len(myPlayers'[i].mycards) = Len(myPlayers[i].mycards) + 1
                         /\ last'.op \in {"hit", "doubleDown"}
                         /\ last'.result = "ok"
                         /\ i = playerTurnIndex + 1
           /\ dealer.myHandState # "Normal" => dealer'.mycards = dealer.mycards
           /\ GotCards(dealer, dealer') =>
                  /\ dealer.myHandState = "Normal"
                  /\ Len(dealer'.mycards) = Len(dealer.mycards) + 1 ]_vars

\* C31, its case: the first seat was dealt a blackjack and still holds its two
\* cards, while the second seat has hit and busted.
BlackjackSeatSkippedSeen ==
    /\ Len(myPlayers) = 2
    /\ myPlayers[1].myHandState = "Blackjack"
    /\ Len(myPlayers[1].mycards) = 2
    /\ myPlayers[2].myHandState = "Busted"
    /\ Len(myPlayers[2].mycards) = 3
    /\ last.op = "hit"
    /\ last.result = "ok"

HandStates == {"Normal", "Blackjack", "Busted", "Surrendered"}

\* C32: every seat and the dealer start a round in hand state Normal, a seat
\* that joins starts in it, and within the round a hand state other than Normal
\* is never left again: Blackjack, Busted and Surrendered are final.
HandStateFinal ==
    [][ /\ \A i \in DOMAIN myPlayers' : myPlayers'[i].myHandState \in HandStates
        /\ dealer'.myHandState \in HandStates
        /\ ~SameRound \/ gameState' \in {"INITIALIZING", "AWAITING_PLAYERS"} =>
               /\ \A i \in DOMAIN myPlayers' :
                      /\ myPlayers'[i].myHandState = "Normal"
                      /\ myPlayers'[i].mycards = <<>>
               /\ dealer'.myHandState = "Normal"
               /\ dealer'.mycards = <<>>
        /\ SameRound =>
               /\ Len(myPlayers') >= Len(myPlayers)
               /\ \A i \in DOMAIN myPlayers :
                      myPlayers[i].myHandState # "Normal" =>
                          myPlayers'[i].myHandState = myPlayers[i].myHandState
               /\ dealer.myHandState # "Normal" =>
                      dealer'.myHandState = dealer.myHandState ]_vars

\* C32, its case: a round has ended with the first seat Surrendered and the
\* second Busted; the first seat kept its state through the second seat's turn.
FinalStatesKeptSeen ==
    /\ gameState = "ENDED"
    /\ Len(myPlayers) = 2
    /\ myPlayers[1].myHandState = "Surrendered"
    /\ myPlayers[2].myHandState = "Busted"
    /\ GameEndedDelivered

\* the first seat in join order whose hand state is Normal, or the dealer
FirstNormalSeat(players) ==
    IF \E i \in DOMAIN players : players[i].myHandState = "Normal"
    THEN (CHOOSE i \in DOMAIN players :
             /\ players[i].myHandState = "Normal"
             /\ \A j \in 1..(i - 1) : players[j].myHandState # "Normal") - 1
    ELSE DealerRef

\* C33: the step in which the join window timer fires runs in state
\* AWAITING_PLAYERS with empty hands and ends in PLAYER_TURNS; it leaves every
\* seat with exactly two cards and the dealer with exactly one, all taken from a
\* fresh shoe of one card set per seat; the seats are the same, in the same
\* order; the one event sent is cards dealt, naming the first seat in join order
\* whose hand state is Normal, or the dealer if there is none, and the turn
\* index points at that seat, or is the number of seats for the dealer.
DealtTwoAndOne ==
    [][ last'.op = "dealCards" =>
           LET n == Len(myPlayers) IN
           /\ gameState = "AWAITING_PLAYERS"
           /\ gameState' = "PLAYER_TURNS"
           /\ Len(myPlayers') = n
           /\ \A i \in 1..n :
                  /\ myPlayers[i].mycards = <<>>
                  /\ Len(myPlayers'[i].mycards) = 2
                  /\ myPlayers'[i].identifier = myPlayers[i].identifier
                  /\ myPlayers'[i].bet = myPlayers[i].bet
                  /\ myPlayers'[i].myHandState \in {"Normal", "Blackjack"}
           /\ dealer.mycards = <<>>
           /\ Len(dealer'.mycards) = 1
           /\ dealer'.myHandState = "Normal"
           /\ \A rank \in Ranks :
                  deck'[rank] = createDeck(n)[rank]
                      - Cardinality({k \in 1..1 : dealer'.mycards[k] = rank})
                      - SumSeq([i \in 1..n |->
                            Cardinality({k \in 1..2 : myPlayers'[i].mycards[k] = rank})])
           /\ events' = Append(events, [type |-> "onCardsDealt",
                                        startingPlayer |-> FirstNormalSeat(myPlayers')])
           /\ playerTurnIndex' = IF FirstNormalSeat(myPlayers') = DealerRef
                                 THEN n ELSE FirstNormalSeat(myPlayers')
           /\ UNCHANGED <<score, myDealerBalance, game>> ]_vars

\* C33, its case: the cards were dealt to two seats, the first got a blackjack,
\* and the cards dealt event names the second seat.
DealtPastBlackjackSeen ==
    /\ last.op = "dealCards"
    /\ gameState = "PLAYER_TURNS"
    /\ Len(myPlayers) = 2
    /\ myPlayers[1].myHandState = "Blackjack"
    /\ myPlayers[2].myHandState = "Normal"
    /\ events = <<[type |-> "onCardsDealt", startingPlayer |-> 1]>>
    /\ playerTurnIndex = 1

-----------------------------------------------------------------------------
RECURSIVE GivenOneByOne(_, _)
\* the seat after one giveCards call per card of cards
GivenOneByOne(player, cards) ==
    IF cards = <<>> THEN player
    ELSE GivenOneByOne(giveCards(player, <<Head(cards)>>), Tail(cards))

\* every card of cards went to a seat that may draw
EachGivenToNormal(cards) ==
    \A k \in 0..(Len(cards) - 1) :
        mayDrawCard(GivenOneByOne(NewPlayer(1, 1), SubSeq(cards, 1, k)))

SameTotals(p, q) ==
    /\ p.mycards = q.mycards
    /\ p.myNonBustedHandValues = q.myNonBustedHandValues
    /\ highestNonBustedHandValue(p) = highestNonBustedHandValue(q)
    /\ p.myHasReachedDealerMinimum = q.myHasReachedDealerMinimum

\* C35 (as amended): cards given one call per card and the same cards given
\* in one call yield the same non-bust totals, best total and
\* reached-dealer-minimum flag for every sequence, and the same hand state
\* for every sequence in which each card goes to a seat that may draw.
GiveOrderIrrelevantWhileNormal ==
    /\ SameTotals(myPlayers[1], myPlayers[2])
    /\ EachGivenToNormal(myPlayers[1].mycards)
           => myPlayers[1].myHandState = myPlayers[2].myHandState

\* a soft three-card hand, each card given to a Normal seat, evaluated alike
SoftHandBothWaysSeen ==
    /\ Len(myPlayers[1].mycards) >= 3
    /\ myPlayers[1].mycards[1] = "Ace"
    /\ Len(myPlayers[1].myNonBustedHandValues) = 2
    /\ EachGivenToNormal(myPlayers[1].mycards)
    /\ myPlayers[1] = myPlayers[2]

\* C35 (as stated): the two ways yield the same hand state for every sequence
GiveOrderIrrelevant ==
    /\ SameTotals(myPlayers[1], myPlayers[2])
    /\ myPlayers[1].myHandState = myPlayers[2].myHandState

-----------------------------------------------------------------------------
TurnTimeoutPending ==
    \E t \in timers : t.id = playerTurnTimeoutId /\ t.cb = "onPlayerTurnTimeout"

\* C36: while the state is PLAYER_TURNS and the turn index is below the number
\* of seats, the seat at the turn index has hand state Normal and the turn
\* timeout the engine holds is pending; so no seat in Blackjack, Busted or
\* Surrendered ever holds the turn in any state.
TurnHolderNormalWithTimeout ==
    (gameState = "PLAYER_TURNS" /\ playerTurnIndex < Len(myPlayers)) =>
        /\ playerTurnIndex >= 0
        /\ mayDrawCard(myPlayers[playerTurnIndex + 1])
        /\ TurnTimeoutPending

\* the first seat was dealt a blackjack or has bust or surrendered, and the
\* second seat holds the turn
TurnPastFinishedSeatSeen ==
    /\ gameState = "PLAYER_TURNS"
    /\ Len(myPlayers) = 2
    /\ playerTurnIndex = 1
    /\ myPlayers[1].myHandState \in {"Blackjack", "Busted", "Surrendered"}
    /\ mayDrawCard(myPlayers[2])
    /\ TurnTimeoutPending

-----------------------------------------------------------------------------
PlayerCalls == {"stand", "hit", "surrender", "doubleDown"}
DealerTurnTimers == {t \in timers : t.cb = "executeDealerTurn"}
DealerIsCurrent == gamesCreated >= 1 /\ playerTurnIndex >= Len(myPlayers)

\* C37: once the turn index has reached the number of seats, no stand, hit,
\* surrender or doubleDown is accepted for any identifier, the dealer's
\* included: the call changes nothing, the turn index stays, at most one
\* dealer turn is ever pending, the game ends at most once, and the dealer's
\* hand changes only in executeDealerTurn and its resumptions.
DealerTurnUndisturbed ==
    [][ DealerIsCurrent =>
          /\ last'.op \in PlayerCalls =>
                 /\ last'.result # "ok"
                 /\ UNCHANGED <<engineVars, mgrVars, events>>
          /\ playerTurnIndex' = playerTurnIndex
          /\ Cardinality(DealerTurnTimers') <= 1
          /\ Cardinality({i \in DOMAIN events' : events'[i].type = "onGameEnded"}) <= 1
          /\ dealer' # dealer => last'.op \in {"executeDealerTurn", "asyncSleep"} ]_vars

\* a user's call has just been turned down during the delay before the
\* dealer's turn
UserCallInDealerDelaySeen ==
    /\ gameState = "PLAYER_TURNS"
    /\ DealerIsCurrent
    /\ DealerTurnTimers # {}
    /\ last.op \in PlayerCalls
    /\ last.identifier \in UserIds
    /\ last.result = "null"

-----------------------------------------------------------------------------
CardsOfRank(cards, rank) == Cardinality({k \in DOMAIN cards : cards[k] = rank})
HeldOfRank(rank) ==
    SumSeq([i \in DOMAIN Hands |-> CardsOfRank(Hands[i].mycards, rank)])
Dealt == gameState \in {"PLAYER_TURNS", "DEALER_TURN", "ENDED"}

\* of every rank, the shoe and the hands together hold what the fresh shoe held
CardsConserved ==
    \A rank \in Ranks :
        deck[rank] + HeldOfRank(rank) = createDeck(Len(myPlayers))[rank]

\* C38: from the deal to the end of the round the shoe, the seats' hands and
\* the dealer's hand together hold exactly the cards the shoe was created with
\* (52 for every seat), rank by rank, after every step that changes the
\* game state, the shoe or a hand; and every such step after the deal moves
\* no card or exactly one card, from the shoe to the end of one hand, all
\* other hands keeping their cards.
CardsAreConserved ==
    [][ ~UNCHANGED <<gameState, deck, myPlayers, dealer>> =>
        /\ Dealt' =>
              /\ CardsConserved'
              /\ DeckSize(deck') + CardsHeld' = 52 * Len(myPlayers')
        /\ Dealt /\ SameRound =>
              /\ Len(myPlayers') = Len(myPlayers)
              /\ \/ deck' = deck /\ \A i \in DOMAIN Hands :
                                        Hands'[i].mycards = Hands[i].mycards
                 \/ \E card \in Ranks, i \in DOMAIN Hands :
                        /\ deck[card] >= 1
                        /\ deck' = [deck EXCEPT ![card] = @ - 1]
                        /\ Hands'[i].mycards = Append(Hands[i].mycards, card)
                        /\ \A j \in DOMAIN Hands \ {i} :
                               Hands'[j].mycards = Hands[j].mycards ]_vars

\* the round has ended, a seat and the dealer have each drawn after the deal,
\* and the shoe is short of exactly the cards in the hands
DrawnCardsAccountedSeen ==
    /\ gameState = "ENDED"
    /\ Len(myPlayers) = 2
    /\ \E i \in DOMAIN myPlayers : Len(myPlayers[i].mycards) >= 3
    /\ Len(dealer.mycards) >= 3
    /\ CardsConserved
    /\ DeckSize(deck) = 52 * 2 - CardsHeld

-----------------------------------------------------------------------------
\* C39: no user's ledger balance is ever below zero: every bet taken by
\* startNewGame, joinGame and doubleDown is covered by the balance it is taken
\* from, and payouts only add.
LedgerNeverNegative == \A u \in UserIds : score[u] >= 0

\* a user whose bets have used up the balance has just been refused a double
\* down for lack of points
BalanceUsedUpSeen ==
    /\ last.op = "doubleDown"
    /\ last.result = "You don't have enough points to double down!"
    /\ score[last.identifier] = 0

====
